---- MODULE Spec2Model ----
(***************************************************************************)
(* State-machine model of the GreenZest backend: the login lockout of the  *)
(* two auth route variants, the loyalty tier bookkeeping of the three user *)
(* stores, the Order schema hooks with the order routes, and the Product   *)
(* rating hook.  Each subsystem has its own specification over its own     *)
(* variables; the variables of the other subsystems stay at their initial  *)
(* value.                                                                  *)
(***************************************************************************)
EXTENDS Integers, Sequences, FiniteSets, TLC

(***************************************************************************)
(* Program constants                                                       *)
(***************************************************************************)
\* lockUntil: { type: Date, default: null }; also "no value" of lastLogin
Null == -1
\* failed attempts that lock an account
LockThreshold == 5
\* routes/auth.js: 15 minutes, in ms
LockMsAuthJs == 15 * 60 * 1000
\* models/User.js: 2 hours, in ms
LockMsUserJs == 2 * 60 * 60 * 1000
\* tier thresholds
SilverPoints == 100
GoldPoints == 500
PlatinumPoints == 1000

(***************************************************************************)
(* Bounds of the model                                                     *)
(***************************************************************************)
\* clock ticks of half a lock duration each
MaxTicks == 5
\* wrong-password attempts since the last successful login
MaxCount == 7
\* loyalty points an account may collect
MaxPoints == 1100
\* CO2 an account may save, in tenths of a kg
MaxCo2 == 11000
\* orders that may be persisted
MaxOrders == 2
\* stock of each product at the start
InitStock == 3
\* how far below zero a stock may be driven before the model stops ordering
MaxDeficit == 3
\* save() calls of new orders that may be in flight at once
MaxSaves == 2
MaxReviews == 3
MaxUsers == 2
MaxOranges == 2
MaxNotifs == 3
\* notification ids of the notification routes
MaxInbox == 3
\* login requests of one account that may be in flight at once
MaxLogins == 2
\* signup requests that may be in flight at once
MaxSignups == 2
\* demote requests that may be in flight at once
MaxDemotes == 2
\* persisted orders the two users own between them
MaxOwned == 2

VARIABLES
  variant,    \* which login implementation the account lives in
  user,       \* the account's stored record
  now,        \* Date.now(), ms since the start of the run
  streak,     \* history: consecutive wrong-password login attempts
  sinceOk,    \* history: wrong-password attempts since the last successful login
  expired,    \* history: the last successful login found an expired lock
  loginResp,  \* the last login response
  member,     \* loyalty: the user's stored record in one of the three stores
  loyResp,    \* loyalty: the last operation applied to member
  stock,      \* orders: the stock field of each product
  orders,     \* orders: the persisted orders, in the order of their insertion
  orderResp,  \* orders: the last request and its answer
  saves,      \* orders: the save() calls of new orders that are in flight
  notifs,     \* orders: the number of stored notifications
  notifErr,   \* orders: whether the last handler's notification creation threw
  placed,     \* orders: the save() calls begun so far and the quantities they ask
  product,    \* products: the stored document of one product
  prodResp,   \* products: the last operation on the product
  server,     \* accounts: which signup/login implementation serves the requests
  users,      \* accounts: the stored user records, in the order of their insertion
  acctReq,    \* accounts: the last signup or login request
  acctResp,   \* accounts: the answer to it
  accts,      \* gate: per user id, whether the user exists, is active, and its role
  profile,    \* gate: per user id, the length of the stored name
  gateReq,    \* gate: the Authorization header of the last request
  gateResp,   \* gate: the route asked, its answer, whether its handler ran
  inbox,      \* notifications: the stored notification of each _id
  inboxResp,  \* notifications: the last request of the notification routes and its answer
  env,        \* create-admin: process.env.ADMIN_SECRET
  staff,      \* create-admin: the stored users, in the order of their insertion
  adminResp,  \* create-admin: the last request and its answer
  raceVariant, \* concurrent logins: which login implementation serves them
  account,    \* concurrent logins: the stored record of the account
  logins,     \* concurrent logins: each request's position and the document it loaded
  evaluated,  \* history: the wrong passwords compared with the account's hash
  raceResp,   \* concurrent logins: the last answer
  signupVariant, \* concurrent signups: which signup implementation serves them
  registry,   \* concurrent signups: the stored users, in the order of their insertion
  signups,    \* concurrent signups: each request's position, body and answer
  roles,      \* demote: the stored role of each user
  demotes,    \* demote: each request's position, caller, target and answer
  ledger,     \* owned orders: the persisted orders, each with its user
  shelf,      \* owned orders: the stock of each product
  ownResp     \* owned orders: the last answer of an order route

authVars == <<variant, user, now, streak, sinceOk, expired, loginResp>>
loyVars == <<member, loyResp>>
orderVars == <<stock, orders, orderResp, saves, notifs, notifErr, placed>>
prodVars == <<product, prodResp>>
acctVars == <<server, users, acctReq, acctResp>>
gateVars == <<accts, profile, gateReq, gateResp>>
inboxVars == <<inbox, inboxResp>>
adminVars == <<env, staff, adminResp>>
raceVars == <<raceVariant, account, logins, evaluated, raceResp>>
signupVars == <<signupVariant, registry, signups>>
demoteVars == <<roles, demotes>>
ownedVars == <<ledger, shelf, ownResp>>
vars == <<variant, user, now, streak, sinceOk, expired, loginResp,
          member, loyResp,
          stock, orders, orderResp, saves, notifs, notifErr, placed,
          product, prodResp,
          server, users, acctReq, acctResp,
          accts, profile, gateReq, gateResp,
          inbox, inboxResp,
          env, staff, adminResp,
          raceVariant, account, logins, evaluated, raceResp,
          signupVariant, registry, signups,
          roles, demotes,
          ledger, shelf, ownResp>>

(***************************************************************************)
(* Login lockout                                                           *)
(***************************************************************************)
\* "authjs": routes/auth.js over the User model with failedLoginAttempts;
\* "part002": the /login of the other auth router over models/User.js.
Variants == {"authjs", "part002"}

LockMs(v) == IF v = "authjs" THEN LockMsAuthJs ELSE LockMsUserJs

TickMs(v) == LockMs(v) \div 2

NewUserAuthJs(active) ==
  [isActive |-> active, failedLoginAttempts |-> 0, lockUntil |-> Null,
   lastLogin |-> Null]

NewUserUserJs(active) ==
  [isActive |-> active, loginAttempts |-> 0, lockUntil |-> Null,
   lastLogin |-> Null]

\* userSchema.methods.isLocked: !!(this.lockUntil && this.lockUntil > Date.now())
isLocked(u, t) == u.lockUntil # Null /\ u.lockUntil > t

incLoginAttempts_OffByOne(u, t) ==
  IF u.lockUntil # Null /\ u.lockUntil < t
  THEN [u EXCEPT !.lockUntil = Null, !.loginAttempts = 1]
  ELSE IF u.loginAttempts >= LockThreshold /\ ~isLocked(u, t)
       THEN [u EXCEPT !.loginAttempts = @ + 1, !.lockUntil = t + LockMsUserJs]
       ELSE [u EXCEPT !.loginAttempts = @ + 1]

\* userSchema.methods.incLoginAttempts
incLoginAttempts(u, t) ==
  IF u.lockUntil # Null /\ u.lockUntil < t
  THEN [u EXCEPT !.lockUntil = Null, !.loginAttempts = 1]
  ELSE IF u.loginAttempts + 1 >= LockThreshold /\ ~isLocked(u, t)
       THEN [u EXCEPT !.loginAttempts = @ + 1, !.lockUntil = t + LockMsUserJs]
       ELSE [u EXCEPT !.loginAttempts = @ + 1]

\* a reset that forgets the lock expiry
resetLoginAttempts_KeepLock(u) == [u EXCEPT !.loginAttempts = 0]

\* userSchema.methods.resetLoginAttempts: $unset of both fields; a missing
\* loginAttempts reads as its default 0
resetLoginAttempts(u) == [u EXCEPT !.loginAttempts = 0, !.lockUntil = Null]

Reply(u, status, msg, token) ==
  [user |-> u, status |-> status, msg |-> msg, token |-> token]

\* routes/auth.js router.post('/login'), after the user was found by email
LoginAuthJs(u, pwOk, t) ==
  IF u.lockUntil # Null /\ u.lockUntil > t
  THEN Reply(u, 423, "locked", FALSE)
  ELSE IF ~u.isActive
  THEN Reply(u, 401, "deactivated", FALSE)
  ELSE IF ~pwOk
  THEN LET n == u.failedLoginAttempts + 1
       IN Reply([u EXCEPT !.failedLoginAttempts = n,
                          !.lockUntil = IF n >= LockThreshold
                                        THEN t + LockMsAuthJs ELSE @],
                401, "invalid", FALSE)
  ELSE Reply([u EXCEPT !.failedLoginAttempts = 0, !.lockUntil = Null,
                       !.lastLogin = t],
             200, "ok", TRUE)

\* the other router.post('/login') (isLocked / incLoginAttempts /
\* resetLoginAttempts of models/User.js), after the user was found by email
LoginPart002(u, pwOk, t) ==
  IF isLocked(u, t)
  THEN Reply(u, 423, "locked", FALSE)
  ELSE IF ~pwOk
  THEN Reply(incLoginAttempts(u, t), 401, "invalid", FALSE)
  ELSE Reply([resetLoginAttempts(u) EXCEPT !.lastLogin = t], 200, "ok", TRUE)

LoginHandler(v, u, pwOk, t) ==
  IF v = "authjs" THEN LoginAuthJs(u, pwOk, t) ELSE LoginPart002(u, pwOk, t)

NoLoginResp ==
  [status |-> 0, msg |-> "none", token |-> FALSE, pwOk |-> FALSE,
   wasLocked |-> FALSE, at |-> 0]

\* POST /auth/login for the account, with a wrong (pwOk = FALSE) or the
\* correct password
Login(pwOk) ==
  /\ pwOk \/ sinceOk < MaxCount
  /\ LET r == LoginHandler(variant, user, pwOk, now)
     IN /\ user' = r.user
        /\ loginResp' = [status |-> r.status, msg |-> r.msg, token |-> r.token,
                         pwOk |-> pwOk, wasLocked |-> isLocked(user, now),
                         at |-> now]
        /\ streak' = IF pwOk THEN 0 ELSE streak + 1
        /\ sinceOk' = IF r.status = 200 THEN 0
                      ELSE IF pwOk THEN sinceOk ELSE sinceOk + 1
        /\ expired' = IF r.status = 200 THEN user.lockUntil # Null ELSE expired
  /\ UNCHANGED <<variant, now>>
  /\ UNCHANGED <<loyVars, orderVars, prodVars, acctVars, gateVars, inboxVars, adminVars, raceVars, signupVars, demoteVars, ownedVars>>

LoginWrong == Login(FALSE)

LoginRight == Login(TRUE)

\* time passes
Tick ==
  /\ now < MaxTicks * TickMs(variant)
  /\ now' = now + TickMs(variant)
  /\ UNCHANGED <<variant, user, streak, sinceOk, expired, loginResp>>
  /\ UNCHANGED <<loyVars, orderVars, prodVars, acctVars, gateVars, inboxVars, adminVars, raceVars, signupVars, demoteVars, ownedVars>>

(***************************************************************************)
(* Loyalty tier                                                            *)
(***************************************************************************)
\* "part005": the User model with updateImpact / updateLoyaltyPoints;
\* "userjs": models/User.js (updateTier / addLoyaltyPoints);
\* "sqlite": the users table of the SQLite server.
Stores == {"part005", "userjs", "sqlite"}

\* points passed to updateLoyaltyPoints / addLoyaltyPoints
PointInputs == {0, 99, 100, 400, 500}

\* co2Saved of PUT /user/impact, in tenths of a kg
Co2Inputs == {0, 995, 1000, 5000}

\* co2Saved, waterSaved, orangesRecycled of PUT /impact, whose validators
\* require each to be >= 0
ImpactInputs == {<<c, 0, 0>> : c \in Co2Inputs} \cup {<<0, 5, 1>>}

\* the same of the SQLite server's PUT /api/user/impact, which validates
\* nothing
SqliteImpactInputs ==
  {<<0, 0, 0>>, <<1000, 0, 0>>, <<5000, 0, 0>>, <<0, 5, 1>>,
   <<0 - 1000, 0 - 5, 0 - 1>>}

\* Math.floor of a value given in tenths
Floor10(x) == x \div 10

TierRank(t) ==
  CASE t \in {"bronze", "Bronze"} -> 0
    [] t \in {"silver", "Silver"} -> 1
    [] t \in {"gold", "Gold"} -> 2
    [] t \in {"platinum", "Platinum"} -> 3

\* the rank of the highest tier whose threshold is <= points
RankOf(points) ==
  IF points >= PlatinumPoints THEN 3
  ELSE IF points >= GoldPoints THEN 2
  ELSE IF points >= SilverPoints THEN 1
  ELSE 0

NewMember(s) ==
  [store |-> s, loyaltyPoints |-> 0,
   tier |-> IF s = "userjs" THEN "Bronze" ELSE "bronze",
   totalCO2Saved |-> 0, totalWaterSaved |-> 0, totalOrangesRecycled |-> 0]

\* the tier update written out in updateImpact and in updateLoyaltyPoints
TierAfter(points, tier) ==
  IF points >= PlatinumPoints THEN "platinum"
  ELSE IF points >= GoldPoints THEN "gold"
  ELSE IF points >= SilverPoints THEN "silver"
  ELSE tier

\* userSchema.methods.updateLoyaltyPoints
updateLoyaltyPoints(m, points) ==
  LET p == m.loyaltyPoints + points
  IN [m EXCEPT !.loyaltyPoints = p, !.tier = TierAfter(p, m.tier)]

\* userSchema.methods.updateImpact (co2 in tenths)
updateImpact(m, co2, water, oranges) ==
  LET p == m.loyaltyPoints + Floor10(co2)
  IN [m EXCEPT !.totalCO2Saved = @ + co2, !.totalWaterSaved = @ + water,
               !.totalOrangesRecycled = @ + oranges, !.loyaltyPoints = p,
               !.tier = TierAfter(p, m.tier)]

\* userSchema.methods.updateTier of models/User.js
updateTier(m) ==
  LET newTier == IF m.loyaltyPoints >= PlatinumPoints THEN "Platinum"
                 ELSE IF m.loyaltyPoints >= GoldPoints THEN "Gold"
                 ELSE IF m.loyaltyPoints >= SilverPoints THEN "Silver"
                 ELSE "Bronze"
  IN IF m.tier # newTier THEN [m EXCEPT !.tier = newTier] ELSE m

\* userSchema.methods.addLoyaltyPoints of models/User.js
addLoyaltyPoints(m, points) ==
  updateTier([m EXCEPT !.loyaltyPoints = @ + points])

\* app.put('/api/user/impact') of the SQLite server: the UPDATE statement
SqliteImpact(m, co2, water, oranges) ==
  [m EXCEPT !.totalCO2Saved = @ + co2, !.totalWaterSaved = @ + water,
            !.totalOrangesRecycled = @ + oranges,
            !.loyaltyPoints = @ + Floor10(co2)]

\* the bounds of the model on the counters after an impact update
ImpactInBounds(m) ==
  /\ m.loyaltyPoints <= MaxPoints /\ m.loyaltyPoints >= 0 - MaxPoints
  /\ m.totalCO2Saved <= MaxCo2 /\ m.totalCO2Saved >= 0 - MaxCo2
  /\ m.totalOrangesRecycled <= MaxOranges
  /\ m.totalOrangesRecycled >= 0 - MaxOranges

\* order placement reaching req.user.updateLoyaltyPoints(Math.floor(total))
EarnPoints(points) ==
  /\ member.store = "part005"
  /\ member.loyaltyPoints + points <= MaxPoints
  /\ member' = updateLoyaltyPoints(member, points)
  /\ loyResp' = [op |-> "updateLoyaltyPoints", arg |-> points]
  /\ UNCHANGED <<authVars, orderVars, prodVars, acctVars, gateVars, inboxVars, adminVars, raceVars, signupVars, demoteVars, ownedVars>>

\* router.put('/impact') over the Mongoose model (co2Saved validated >= 0)
PutImpact(co2, water, oranges) ==
  /\ member.store = "part005"
  /\ ImpactInBounds(updateImpact(member, co2, water, oranges))
  /\ member' = updateImpact(member, co2, water, oranges)
  /\ loyResp' = [op |-> "updateImpact", arg |-> co2]
  /\ UNCHANGED <<authVars, orderVars, prodVars, acctVars, gateVars, inboxVars, adminVars, raceVars, signupVars, demoteVars, ownedVars>>

AddPoints(points) ==
  /\ member.store = "userjs"
  /\ member.loyaltyPoints + points <= MaxPoints
  /\ member' = addLoyaltyPoints(member, points)
  /\ loyResp' = [op |-> "addLoyaltyPoints", arg |-> points]
  /\ UNCHANGED <<authVars, orderVars, prodVars, acctVars, gateVars, inboxVars, adminVars, raceVars, signupVars, demoteVars, ownedVars>>

PutImpactSqlite(co2, water, oranges) ==
  /\ member.store = "sqlite"
  /\ ImpactInBounds(SqliteImpact(member, co2, water, oranges))
  /\ member' = SqliteImpact(member, co2, water, oranges)
  /\ loyResp' = [op |-> "sqliteImpact", arg |-> co2]
  /\ UNCHANGED <<authVars, orderVars, prodVars, acctVars, gateVars, inboxVars, adminVars, raceVars, signupVars, demoteVars, ownedVars>>

(***************************************************************************)
(* Orders and product stock                                                *)
(***************************************************************************)
Products == {"p1", "p2"}

\* status: enum of the Order schema
StatusEnum == {"pending", "processing", "shipped", "delivered", "cancelled"}

\* paymentMethod: enum of the Order schema
PaymentEnum == {"card", "paypal", "cash_on_delivery"}

\* body('paymentMethod').isIn([...]) of POST /orders
RoutePayments == {"Stripe", "PayPal", "Livraison"}

\* the status values a request body carries in the model
StatusInputs == {"pending", "shipped", "delivered", "cancelled", "Annulée"}

Item(p, q, price) == [product |-> p, quantity |-> q, price |-> price]

\* [{price:10, qty:2}, {price:5, qty:1}]
ExampleItems == <<Item("p1", 2, 10), Item("p2", 1, 5)>>

\* an item as POST /orders validates it: a productId and no product field
RouteItems == <<Item("missing", 1, 10)>>

ItemLists == {<<>>, ExampleItems, RouteItems}

TotalInputs == {0, 30}

\* an orderNumber is the digits that follow "CMD-"; <<>> is a missing one
RECURSIVE Digits(_)
Digits(n) == IF n < 10 THEN <<n>> ELSE Append(Digits(n \div 10), n % 10)

\* String.prototype.padStart(w, '0')
RECURSIVE PadStart(_, _)
PadStart(s, w) == IF Len(s) >= w THEN s ELSE PadStart(<<0>> \o s, w)

FormatOrderNumber(count) == PadStart(Digits(count + 1), 4)

\* the number an orderNumber reads as
RECURSIVE NumberOf(_)
NumberOf(s) ==
  IF s = <<>> THEN 0
  ELSE NumberOf(SubSeq(s, 1, Len(s) - 1)) * 10 + s[Len(s)]

\* items.reduce((sum, item) => sum + item.price * item.quantity, 0)
RECURSIVE SumItems(_)
SumItems(items) ==
  IF items = <<>> THEN 0
  ELSE items[1].price * items[1].quantity + SumItems(Tail(items))

\* the quantity of product p that the items ask for
RECURSIVE QuantityOf(_, _)
QuantityOf(items, p) ==
  IF items = <<>> THEN 0
  ELSE (IF items[1].product = p THEN items[1].quantity ELSE 0)
       + QuantityOf(Tail(items), p)

\* a stock written back from a value read before the other placement's write
IncStock_Stale(stk, p, n) ==
  IF p \in DOMAIN stk THEN [stk EXCEPT ![p] = InitStock + n] ELSE stk

\* Product.findByIdAndUpdate(item.product, { $inc: { stock: n } }); an id
\* that matches no product updates nothing
IncStock(stk, p, n) ==
  IF p \in DOMAIN stk THEN [stk EXCEPT ![p] = @ + n] ELSE stk

\* the for loop of both post hooks: $inc by sign * quantity, item by item
RECURSIVE AdjustStock(_, _, _)
AdjustStock(items, stk, sign) ==
  IF items = <<>> THEN stk
  ELSE AdjustStock(Tail(items),
                   IncStock(stk, items[1].product, sign * items[1].quantity),
                   sign)

NewOrderDoc(number, items, total, pm) ==
  [orderNumber |-> number, user |-> "u1", items |-> items, total |-> total,
   status |-> "pending", paymentMethod |-> pm]

ItemValid(it) ==
  it.product # "missing" /\ it.quantity >= 1 /\ it.price >= 0

\* the schema's validators on a new document; save() validates before it
\* runs the pre('save') hooks, so a required orderNumber must already be set
ValidNew(doc) ==
  /\ doc.orderNumber # <<>>
  /\ \A i \in 1..Len(doc.items) : ItemValid(doc.items[i])
  /\ doc.total >= 0
  /\ doc.status \in StatusEnum
  /\ doc.paymentMethod \in PaymentEnum

\* the validators on a loaded document whose status was assigned: only a
\* modified status is checked against the enum
ValidResave(old, doc) == doc.status = old.status \/ doc.status \in StatusEnum

\* orderSchema.pre('save'): order number
preSaveOrderNumber(doc, isNew, count) ==
  IF isNew THEN [doc EXCEPT !.orderNumber = FormatOrderNumber(count)] ELSE doc

\* orderSchema.pre('save'): total
preSaveTotal(doc) ==
  IF Len(doc.items) > 0 THEN [doc EXCEPT !.total = SumItems(doc.items)]
  ELSE doc

\* orderSchema.post('save')
postSave(doc, stk) ==
  IF doc.status = "pending" THEN AdjustStock(doc.items, stk, -1) ELSE stk

\* orderSchema.post('findOneAndUpdate'): doc is the document the query
\* returned, updStatus is this._update.status
postFindOneAndUpdate(doc, updStatus, stk) ==
  IF updStatus = "cancelled" /\ doc.status # "cancelled"
  THEN AdjustStock(doc.items, stk, 1)
  ELSE stk

UniqueIndexAllows_NoIndex(ords, number) == TRUE

\* orderNumber: { unique: true }: the insert is refused when the number is taken
UniqueIndexAllows(ords, number) ==
  \A i \in 1..Len(ords) : ords[i].orderNumber # number

SaveResult(ok, err, ords, stk) ==
  [ok |-> ok, err |-> err, orders |-> ords, stock |-> stk]

\* new Order(doc).save(), run to its end with no other request in between
SaveNew(doc, ords, stk) ==
  IF ~ValidNew(doc) THEN SaveResult(FALSE, "ValidationError", ords, stk)
  ELSE LET d == preSaveTotal(preSaveOrderNumber(doc, TRUE, Len(ords)))
       IN IF ~UniqueIndexAllows(ords, d.orderNumber)
          THEN SaveResult(FALSE, "E11000", ords, stk)
          ELSE SaveResult(TRUE, "none", Append(ords, d), postSave(d, stk))

\* order.status = status; order.save() on the loaded order number i
SaveStatus(i, status, ords, stk) ==
  LET doc == [ords[i] EXCEPT !.status = status]
  IN IF ~ValidResave(ords[i], doc)
     THEN SaveResult(FALSE, "ValidationError", ords, stk)
     ELSE LET d == preSaveTotal(preSaveOrderNumber(doc, FALSE, Len(ords)))
          IN SaveResult(TRUE, "none", [ords EXCEPT ![i] = d], postSave(d, stk))

StockInBounds(stk) == \A p \in Products : stk[p] >= 0 - MaxDeficit

OrderIds == 1..(MaxOrders + 1)

Resp(op, code, id, status, err) ==
  [op |-> op, code |-> code, id |-> id, status |-> status, err |-> err]

NoOrderResp == Resp("none", 0, 0, "none", "none")

IdleSave == [pc |-> "idle", doc |-> NewOrderDoc(<<>>, <<>>, 0, "card"),
             count |-> 0, next |-> 0]

\* the keys of statusMessages in the admin router's status route
StatusMessages == {"processing", "shipped", "delivered", "cancelled"}

\* type: enum of the Notification schema
NotificationTypes == {"order", "promotion", "news", "system"}

\* Notification.createNotification / Notification.create: the document is
\* validated and then written; dbOk is whether the database takes the write
CreateNotification(type, dbOk) == type \in NotificationTypes /\ dbOk

\* new Order(doc).save() by a caller of the model
OrderSaveNew(number, items, total, pm) ==
  /\ Len(orders) < MaxOrders
  /\ LET r == SaveNew(NewOrderDoc(number, items, total, pm), orders, stock)
     IN /\ StockInBounds(r.stock)
        /\ orders' = r.orders
        /\ stock' = r.stock
        /\ orderResp' = Resp("save", IF r.ok THEN 201 ELSE 500,
                             IF r.ok THEN Len(r.orders) ELSE 0, "pending", r.err)
  /\ UNCHANGED <<saves, notifs, notifErr, placed,
                 authVars, loyVars, prodVars, acctVars, gateVars, inboxVars, adminVars, raceVars, signupVars, demoteVars, ownedVars>>

\* Math.floor of a total; the totals of the model are whole numbers
MathFloor(x) == x

\* router.post('/') of the orders router: the validators, then
\* new Order({user, items, total, paymentMethod, ...}).save(), then the two
\* loyalty points of Math.floor(total) of the body's total, then the two
\* notifications, each in a try/catch of its own
PostOrder(items, total, pm, dbOk) ==
  /\ Len(orders) < MaxOrders
  /\ IF ~( /\ pm \in RoutePayments
           /\ total >= 0
           /\ \A i \in 1..Len(items) :
                items[i].price >= 0 /\ items[i].quantity >= 1 )
     THEN /\ orderResp' = Resp("postOrder", 400, 0, "none", "invalid")
          /\ UNCHANGED <<orders, stock, notifs, member>>
          /\ notifErr' = FALSE
     ELSE LET r == SaveNew(NewOrderDoc(<<>>, items, total, pm), orders, stock)
              pointsEarned == MathFloor(total)
              confirmed == r.ok /\ CreateNotification("order", dbOk)
              earned == /\ r.ok
                        /\ pointsEarned > 0
                        /\ CreateNotification("promotion", dbOk)
          IN /\ notifs + 2 <= MaxNotifs
             /\ orders' = r.orders
             /\ stock' = r.stock
             /\ member' = IF r.ok THEN updateLoyaltyPoints(member, pointsEarned)
                          ELSE member
             /\ notifs' = notifs + (IF confirmed THEN 1 ELSE 0)
                                 + (IF earned THEN 1 ELSE 0)
             /\ notifErr' = (r.ok /\ ~confirmed)
             /\ orderResp' = Resp("postOrder", IF r.ok THEN 201 ELSE 500,
                                  IF r.ok THEN Len(r.orders) ELSE 0,
                                  "pending", r.err)
  /\ UNCHANGED <<saves, placed, loyResp,
                 authVars, prodVars, acctVars, gateVars, inboxVars, adminVars, raceVars, signupVars, demoteVars, ownedVars>>

\* router.post('/:id/cancel')
PostCancel(id, dbOk) ==
  /\ IF id > Len(orders)
     THEN /\ orderResp' = Resp("cancel", 404, id, "none", "none")
          /\ UNCHANGED <<orders, stock, notifs>>
          /\ notifErr' = FALSE
     ELSE IF orders[id].status = "Annulée" \/ orders[id].status = "Livrée"
     THEN /\ orderResp' = Resp("cancel", 400, id, "none", "none")
          /\ UNCHANGED <<orders, stock, notifs>>
          /\ notifErr' = FALSE
     ELSE LET r == SaveStatus(id, "Annulée", orders, stock)
              created == r.ok /\ CreateNotification("order", dbOk)
          IN /\ notifs < MaxNotifs
             /\ orders' = r.orders
             /\ stock' = r.stock
             /\ notifs' = IF created THEN notifs + 1 ELSE notifs
             /\ notifErr' = (r.ok /\ ~created)
             /\ orderResp' = Resp("cancel", IF created THEN 200 ELSE 500, id,
                                  "Annulée",
                                  IF r.ok /\ ~created THEN "notification"
                                  ELSE r.err)
  /\ UNCHANGED <<saves, placed, authVars, loyVars, prodVars, acctVars, gateVars, inboxVars, adminVars, raceVars, signupVars, demoteVars, ownedVars>>

\* router.put('/:id/status') of the orders router
PutStatus(id, status, dbOk) ==
  /\ IF id > Len(orders)
     THEN /\ orderResp' = Resp("putStatus", 404, id, status, "none")
          /\ UNCHANGED <<orders, stock, notifs>>
          /\ notifErr' = FALSE
     ELSE LET r == SaveStatus(id, status, orders, stock)
              created == r.ok /\ CreateNotification("order", dbOk)
          IN /\ StockInBounds(r.stock)
             /\ notifs < MaxNotifs
             /\ orders' = r.orders
             /\ stock' = r.stock
             /\ notifs' = IF created THEN notifs + 1 ELSE notifs
             /\ notifErr' = (r.ok /\ ~created)
             /\ orderResp' = Resp("putStatus", IF created THEN 200 ELSE 500,
                                  id, status,
                                  IF r.ok /\ ~created THEN "notification"
                                  ELSE r.err)
  /\ UNCHANGED <<saves, placed, authVars, loyVars, prodVars, acctVars, gateVars, inboxVars, adminVars, raceVars, signupVars, demoteVars, ownedVars>>

\* router.put('/orders/:id/status') of the admin router:
\* Order.findByIdAndUpdate(id, { status }, { new: true }), no validators run,
\* then Notification.create({ type: 'order_update', ... }) for the statuses
\* of statusMessages
AdminPutStatus(id, status, dbOk) ==
  /\ IF id > Len(orders)
     THEN /\ orderResp' = Resp("adminStatus", 404, id, status, "none")
          /\ UNCHANGED <<orders, stock, notifs>>
          /\ notifErr' = FALSE
     ELSE LET updated == [orders[id] EXCEPT !.status = status]
              asked == status \in StatusMessages
              created == asked /\ CreateNotification("order_update", dbOk)
          IN /\ notifs < MaxNotifs
             /\ orders' = [orders EXCEPT ![id] = updated]
             /\ stock' = postFindOneAndUpdate(updated, status, stock)
             /\ notifs' = IF created THEN notifs + 1 ELSE notifs
             /\ notifErr' = (asked /\ ~created)
             /\ orderResp' = Resp("adminStatus",
                                  IF asked /\ ~created THEN 500 ELSE 200,
                                  id, status,
                                  IF asked /\ ~created THEN "notification"
                                  ELSE "none")
  /\ UNCHANGED <<saves, placed, authVars, loyVars, prodVars, acctVars, gateVars, inboxVars, adminVars, raceVars, signupVars, demoteVars, ownedVars>>

\* --- a save() of a new order, step by step (one step per await) ----------
Savers == 1..MaxSaves

\* validation, then the first pre('save') hook awaits countDocuments()
SaveBegin(p, number, items, total) ==
  /\ saves[p].pc = "idle"
  /\ Len(orders) < MaxOrders
  /\ LET doc == NewOrderDoc(number, items, total, "card")
     IN IF ValidNew(doc)
        THEN /\ saves' = [saves EXCEPT ![p] = [pc |-> "counted", doc |-> doc,
                                                count |-> Len(orders),
                                                next |-> 0]]
             /\ placed' = [begun |-> placed.begun + 1,
                           qty |-> [q \in Products |->
                                      placed.qty[q] + QuantityOf(items, q)]]
             /\ orderResp' = Resp("saveBegin", 0, 0, "pending", "none")
        ELSE /\ saves' = saves
             /\ placed' = placed
             /\ orderResp' = Resp("save", 500, 0, "pending", "ValidationError")
  /\ UNCHANGED <<orders, stock, notifs, notifErr,
                 authVars, loyVars, prodVars, acctVars, gateVars, inboxVars, adminVars, raceVars, signupVars, demoteVars, ownedVars>>

\* the hooks set orderNumber and total, then the document is inserted
SaveInsert(p) ==
  /\ saves[p].pc = "counted"
  /\ LET d == preSaveTotal(preSaveOrderNumber(saves[p].doc, TRUE, saves[p].count))
     IN IF UniqueIndexAllows(orders, d.orderNumber)
        THEN /\ orders' = Append(orders, d)
             /\ saves' = [saves EXCEPT ![p] = [pc |-> "post", doc |-> d,
                                                count |-> saves[p].count,
                                                next |-> 1]]
             /\ orderResp' = Resp("saveInsert", 0, Len(orders) + 1, "pending", "none")
        ELSE /\ orders' = orders
             /\ saves' = [saves EXCEPT ![p] = IdleSave]
             /\ orderResp' = Resp("save", 500, 0, "pending", "E11000")
  /\ UNCHANGED <<stock, notifs, notifErr, placed,
                 authVars, loyVars, prodVars, acctVars, gateVars, inboxVars, adminVars, raceVars, signupVars, demoteVars, ownedVars>>

\* post('save'): one awaited $inc per item, then save() resolves
SaveStock(p) ==
  /\ saves[p].pc = "post"
  /\ LET d == saves[p].doc
         n == saves[p].next
     IN IF d.status = "pending" /\ n <= Len(d.items)
        THEN /\ stock' = IncStock(stock, d.items[n].product, 0 - d.items[n].quantity)
             /\ saves' = [saves EXCEPT ![p].next = n + 1]
             /\ orderResp' = Resp("saveStock", 0, 0, "pending", "none")
        ELSE /\ stock' = stock
             /\ saves' = [saves EXCEPT ![p] = IdleSave]
             /\ orderResp' = Resp("save", 201, 0, "pending", "none")
  /\ UNCHANGED <<orders, notifs, notifErr, placed,
                 authVars, loyVars, prodVars, acctVars, gateVars, inboxVars, adminVars, raceVars, signupVars, demoteVars, ownedVars>>

(***************************************************************************)
(* Product reviews and rating                                              *)
(***************************************************************************)
Ratings == 0..5

\* a Number that is a quotient of integers, in lowest terms
RECURSIVE Gcd(_, _)
Gcd(a, b) == IF b = 0 THEN a ELSE Gcd(b, a % b)

Quotient(n, d) ==
  LET g == Gcd(n, d) IN [num |-> n \div g, den |-> d \div g]

Zero == [num |-> 0, den |-> 1]

\* this.reviews.reduce((sum, review) => sum + review.rating, 0)
RECURSIVE totalRating(_)
totalRating(reviews) ==
  IF reviews = <<>> THEN 0 ELSE reviews[1] + totalRating(Tail(reviews))

RemoveAt(s, i) == SubSeq(s, 1, i - 1) \o SubSeq(s, i + 1, Len(s))

\* reviews[].rating: required, min 1, max 5
ValidProduct(doc) ==
  \A i \in 1..Len(doc.reviews) : doc.reviews[i] >= 1 /\ doc.reviews[i] <= 5

\* productSchema.pre('save'): average rating
preSaveRating(doc) ==
  IF Len(doc.reviews) > 0
  THEN [doc EXCEPT !.averageRating = Quotient(totalRating(doc.reviews), Len(doc.reviews)),
                   !.reviewCount = Len(doc.reviews)]
  ELSE doc

\* averageRating and reviewCount default to 0
NewProduct(reviews, average, count) ==
  [exists |-> TRUE, reviews |-> reviews, averageRating |-> average,
   reviewCount |-> count]

NoProduct == [exists |-> FALSE, reviews |-> <<>>, averageRating |-> Zero,
              reviewCount |-> 0]

AverageInputs == {Zero, Quotient(4, 1)}

CountInputs == {0, 2}

ProdResp(op, ok) == [op |-> op, ok |-> ok]

\* doc.save() of a product document
SaveProduct(doc, op) ==
  IF ValidProduct(doc)
  THEN /\ product' = preSaveRating(doc)
       /\ prodResp' = ProdResp(op, TRUE)
  ELSE /\ product' = product
       /\ prodResp' = ProdResp(op, FALSE)

\* router.post('/products'): Product.create(req.body), which saves
CreateProduct(reviews, average, count) ==
  /\ ~product.exists
  /\ SaveProduct(NewProduct(reviews, average, count), "create")
  /\ UNCHANGED <<authVars, loyVars, orderVars, acctVars, gateVars, inboxVars, adminVars, raceVars, signupVars, demoteVars, ownedVars>>

\* product.reviews.push({ rating }); product.save()
AddReview(rating) ==
  /\ product.exists
  /\ Len(product.reviews) < MaxReviews
  /\ SaveProduct([product EXCEPT !.reviews = Append(@, rating)], "addReview")
  /\ UNCHANGED <<authVars, loyVars, orderVars, acctVars, gateVars, inboxVars, adminVars, raceVars, signupVars, demoteVars, ownedVars>>

\* product.reviews.splice(i, 1); product.save()
RemoveReview(i) ==
  /\ product.exists
  /\ i <= Len(product.reviews)
  /\ SaveProduct([product EXCEPT !.reviews = RemoveAt(@, i)], "removeReview")
  /\ UNCHANGED <<authVars, loyVars, orderVars, acctVars, gateVars, inboxVars, adminVars, raceVars, signupVars, demoteVars, ownedVars>>

\* router.put('/products/:id'): Product.findByIdAndUpdate(id, req.body),
\* which runs neither validators nor save hooks
UpdateProduct(average, count) ==
  /\ product.exists
  /\ product' = [product EXCEPT !.averageRating = average, !.reviewCount = count]
  /\ prodResp' = ProdResp("update", TRUE)
  /\ UNCHANGED <<authVars, loyVars, orderVars, acctVars, gateVars, inboxVars, adminVars, raceVars, signupVars, demoteVars, ownedVars>>

\* router.delete('/products/:id'): Product.findByIdAndDelete
DeleteProduct ==
  /\ product.exists
  /\ product' = NoProduct
  /\ prodResp' = ProdResp("delete", TRUE)
  /\ UNCHANGED <<authVars, loyVars, orderVars, acctVars, gateVars, inboxVars, adminVars, raceVars, signupVars, demoteVars, ownedVars>>

(***************************************************************************)
(* Signup and login by email                                               *)
(***************************************************************************)
\* the three signup/login implementations
Servers == {"authjs", "part002", "sqlite"}

\* an email is its sequence of characters
EmailInputs == {<<"a", "@", "b">>, <<"A", "@", "b">>, <<"c", "@", "b">>}

\* String.prototype.toLowerCase(), character by character
LowerChar(c) == CASE c = "A" -> "a" [] c = "B" -> "b" [] c = "C" -> "c" [] OTHER -> c

\* the schema's lowercase: true setter; normalizeEmail() of the validators
Lowercase(s) == [i \in 1..Len(s) |-> LowerChar(s[i])]

\* a password: its text, its length, and whether it holds a lowercase letter,
\* an uppercase letter, a digit and a special character
Strong == [text |-> "Str0ng!pw", len |-> 9, mixed |-> TRUE]
Plain == [text |-> "plain12", len |-> 7, mixed |-> FALSE]
Tiny == [text |-> "abc", len |-> 3, mixed |-> FALSE]
PasswordInputs == {Strong, Plain, Tiny}

\* bcrypt.hash(password, 12)
Hash(pw) == <<"bcrypt", pw.text>>

\* user.password = undefined
Undefined == <<>>

\* the request body: name, email, password and fields the handler never reads
Body(nameLen, email, pw, role, points) ==
  [nameLen |-> nameLen, email |-> email, password |-> pw, role |-> role,
   loyaltyPoints |-> points]

BodyInputs ==
  {Body(n, e, pw, "undefined", 0) : n \in {1, 5}, e \in EmailInputs,
                                    pw \in PasswordInputs}
  \cup {Body(5, e, Strong, "admin", 999) : e \in EmailInputs}

\* the lockout fields of a new account
NewSecurity(s) ==
  IF s = "authjs" THEN NewUserAuthJs(TRUE)
  ELSE IF s = "part002" THEN NewUserUserJs(TRUE)
  ELSE [isActive |-> TRUE, lastLogin |-> 0]

\* const { name, email, password } = req.body
SignupFields(body) ==
  [email |-> body.email, password |-> body.password, nameLen |-> body.nameLen,
   role |-> "undefined", loyaltyPoints |-> 0]

\* the stored record of User.create({ name, email, password }) or of
\* INSERT INTO users (name, email, password): the schema's defaults, a role
\* only where the schema has one (models/User.js)
NewAccount(s, fields) ==
  [email |-> Lowercase(fields.email),
   password |-> Hash(fields.password),
   role |-> IF s = "part002"
            THEN (IF fields.role = "undefined" THEN "user" ELSE fields.role)
            ELSE "undefined",
   loyaltyPoints |-> fields.loyaltyPoints,
   tier |-> IF s = "part002" THEN "Bronze" ELSE "bronze",
   totalCO2Saved |-> 0, totalWaterSaved |-> 0, totalOrangesRecycled |-> 0,
   sec |-> NewSecurity(s)]

FindByEmail_None(s, us, email) == 0

\* User.findOne({ email }) / SELECT id FROM users WHERE email = ?: the index
\* of the account, 0 if none.  Mongoose casts the filter with the schema's
\* lowercase setter; the SQLite handlers compare the normalised email.
FindByEmail(s, us, email) ==
  LET key == Lowercase(email)
      hits == {i \in 1..Len(us) : us[i].email = key}
  IN IF hits = {} THEN 0 ELSE CHOOSE i \in hits : \A j \in hits : i <= j

\* email: { unique: true } / email TEXT UNIQUE
EmailIndexAllows(us, doc) == \A i \in 1..Len(us) : us[i].email # doc.email

\* res.json() of a document: a field set to undefined is left out
ToJSON(doc) ==
  IF doc.password = Undefined
  THEN [f \in DOMAIN doc \ {"password"} |-> doc[f]]
  ELSE doc

sendUserResponse_KeepPassword(doc) == ToJSON(doc)

\* sendUserResponse: user.password = undefined, then res.json({ user })
sendUserResponse(doc) == ToJSON([doc EXCEPT !.password = Undefined])

\* the user object the part_002 handlers build field by field
Projection(doc) ==
  [email |-> doc.email, role |-> doc.role, loyaltyPoints |-> doc.loyaltyPoints,
   tier |-> doc.tier, totalCO2Saved |-> doc.totalCO2Saved,
   totalWaterSaved |-> doc.totalWaterSaved,
   totalOrangesRecycled |-> doc.totalOrangesRecycled]

\* delete user.password
DeletePassword(row) == [f \in DOMAIN row \ {"password"} |-> row[f]]

ReturnedUser(s, doc) ==
  IF s = "authjs" THEN sendUserResponse(doc)
  ELSE IF s = "part002" THEN Projection(doc)
  ELSE DeletePassword(doc)

NoFields == [f \in {} |-> 0]

AcctReply(us, status, msg, token, returned) ==
  [users |-> us, status |-> status, msg |-> msg, token |-> token,
   user |-> returned]

\* body validators of the signup route; part_002 has none
SignupBodyValid(s, body) ==
  CASE s = "authjs" ->
         body.nameLen >= 2 /\ body.nameLen <= 50 /\ body.password.len >= 8
         /\ body.password.mixed
    [] s = "sqlite" ->
         body.nameLen >= 2 /\ body.nameLen <= 50 /\ body.password.len >= 6
    [] OTHER -> TRUE

\* the schema's validators at User.create: name required, password minlength 6
AccountValid(s, fields) ==
  s = "sqlite" \/ (fields.nameLen >= 1 /\ fields.password.len >= 6)

\* router.post('/signup'), router.post('/register'), app.post('/api/auth/signup')
SignupHandler(s, body, us) ==
  IF ~SignupBodyValid(s, body)
  THEN AcctReply(us, 400, "invalid", FALSE, NoFields)
  ELSE IF FindByEmail(s, us, body.email) # 0
  THEN AcctReply(us, 400, "duplicate", FALSE, NoFields)
  ELSE LET doc == NewAccount(s, SignupFields(body))
       IN IF ~AccountValid(s, SignupFields(body))
          THEN AcctReply(us, 500, "error", FALSE, NoFields)
          ELSE IF ~EmailIndexAllows(us, doc)
          THEN (IF s = "authjs"
                THEN AcctReply(us, 400, "duplicate", FALSE, NoFields)
                ELSE AcctReply(us, 500, "error", FALSE, NoFields))
          ELSE AcctReply(Append(us, doc), 201, "created", TRUE,
                         ReturnedUser(s, doc))

LoginSqlite_ActiveFirst(u, pwOk, t) ==
  IF ~u.isActive THEN Reply(u, 401, "deactivated", FALSE)
  ELSE IF ~pwOk THEN Reply(u, 401, "invalid", FALSE)
  ELSE Reply([u EXCEPT !.lastLogin = t], 200, "ok", TRUE)

\* app.post('/api/auth/login') of the SQLite server, on the row found
LoginSqlite(u, pwOk, t) ==
  IF ~pwOk THEN Reply(u, 401, "invalid", FALSE)
  ELSE IF ~u.isActive THEN Reply(u, 401, "deactivated", FALSE)
  ELSE Reply([u EXCEPT !.lastLogin = t], 200, "ok", TRUE)

\* the login routes: look the account up by email, then as above
LoginByEmail(s, email, pw, us, t) ==
  LET i == FindByEmail(s, us, email)
  IN IF i = 0 THEN AcctReply(us, 401, "invalid", FALSE, NoFields)
     ELSE LET pwOk == Hash(pw) = us[i].password
              r == IF s = "sqlite" THEN LoginSqlite(us[i].sec, pwOk, t)
                   ELSE LoginHandler(s, us[i].sec, pwOk, t)
              doc == [us[i] EXCEPT !.sec = r.user]
          IN AcctReply([us EXCEPT ![i] = doc], r.status, r.msg, r.token,
                       IF r.status = 200 THEN ReturnedUser(s, doc)
                       ELSE NoFields)

\* an account with this email is stored
Registered(us, email) == \E i \in 1..Len(us) : us[i].email = Lowercase(email)

\* the request, and what the store held for its email when it arrived
AcctRequest(op, s, body, us, t) ==
  LET hits == {i \in 1..Len(us) : us[i].email = Lowercase(body.email)}
  IN [op |-> op, email |-> body.email,
      valid |-> SignupBodyValid(s, body),
      registered |-> hits # {},
      pwOk |-> \E i \in hits : us[i].password = Hash(body.password),
      wasActive |-> \E i \in hits : us[i].sec.isActive,
      wasLocked |-> \E i \in hits :
                      "lockUntil" \in DOMAIN us[i].sec /\ isLocked(us[i].sec, t)]

NoAcctRequest ==
  [op |-> "none", email |-> <<>>, valid |-> FALSE, registered |-> FALSE,
   pwOk |-> FALSE, wasActive |-> FALSE, wasLocked |-> FALSE]

NoAcctResp == [status |-> 0, msg |-> "none", token |-> FALSE, user |-> NoFields]

\* POST signup / register
Signup(body) ==
  /\ LET r == SignupHandler(server, body, users)
     IN /\ Len(r.users) <= MaxUsers
        /\ users' = r.users
        /\ acctResp' = [status |-> r.status, msg |-> r.msg, token |-> r.token,
                        user |-> r.user]
        /\ acctReq' = AcctRequest("signup", server, body, users, now)
  /\ UNCHANGED <<server>>
  /\ UNCHANGED <<authVars, loyVars, orderVars, prodVars, gateVars, inboxVars, adminVars, raceVars, signupVars, demoteVars, ownedVars>>

\* POST login
LoginEmail(email, pw) ==
  /\ LET r == LoginByEmail(server, email, pw, users, now)
     IN /\ users' = r.users
        /\ acctResp' = [status |-> r.status, msg |-> r.msg, token |-> r.token,
                        user |-> r.user]
        /\ acctReq' = AcctRequest("login", server,
                                  Body(0, email, pw, "undefined", 0), users, now)
  /\ UNCHANGED <<server>>
  /\ UNCHANGED <<authVars, loyVars, orderVars, prodVars, gateVars, inboxVars, adminVars, raceVars, signupVars, demoteVars, ownedVars>>

(***************************************************************************)
(* The auth gate and the routes behind it                                  *)
(***************************************************************************)
\* the ids of the users a token can name
Ids == {1, 2}

\* module.exports = { protect, optionalAuth }
AuthExports == {"protect", "optionalAuth"}

\* const { protect, admin } = require('../middleware/auth'): a name the
\* module does not export is undefined
Imported(name) == IF name \in AuthExports THEN "function" ELSE "undefined"

\* router.METHOD(path, ...handlers) throws unless every handler is a function
RouteRegisters(handlers) == \A h \in handlers : Imported(h) = "function"

Jwt(sub, exp, key, wellFormed) ==
  [sub |-> sub, exp |-> exp, key |-> key, wellFormed |-> wellFormed]

\* tokens: signed with the server's secret or another key, expiring at 0 or 1
TokenInputs ==
  {Jwt(id, exp, key, TRUE) : id \in Ids, exp \in {0, 1}, key \in {"secret", "other"}}
  \cup {Jwt(1, 1, "secret", FALSE)}

Header(scheme, token) == [scheme |-> scheme, token |-> token]

\* the Authorization header: absent, of another scheme, or Bearer <token>
HeaderInputs ==
  {Header("none", Jwt(1, 1, "secret", FALSE))}
  \cup {Header(sch, tok) : sch \in {"Basic", "Bearer"}, tok \in TokenInputs}

\* jwt.verify(token, process.env.JWT_SECRET)
jwtVerify(tok, t) ==
  IF ~tok.wellFormed \/ tok.key # "secret"
  THEN [error |-> "JsonWebTokenError", id |-> 0]
  ELSE IF t >= tok.exp THEN [error |-> "TokenExpiredError", id |-> 0]
  ELSE [error |-> "none", id |-> tok.sub]

Gate(status, msg, id) == [status |-> status, msg |-> msg, user |-> id]

protect_NoActiveCheck(header, us, t) ==
  IF header.scheme # "Bearer" THEN Gate(401, "no token", 0)
  ELSE LET decoded == jwtVerify(header.token, t)
       IN IF decoded.error # "none" THEN Gate(401, decoded.error, 0)
          ELSE IF ~us[decoded.id].exists THEN Gate(401, "no user", 0)
          ELSE Gate(0, "next", decoded.id)

\* protect: status 0 stands for next(), with req.user set
protect(header, us, t) ==
  IF header.scheme # "Bearer" THEN Gate(401, "no token", 0)
  ELSE LET decoded == jwtVerify(header.token, t)
       IN IF decoded.error # "none" THEN Gate(401, decoded.error, 0)
          ELSE IF ~us[decoded.id].exists THEN Gate(401, "no user", 0)
          ELSE IF ~us[decoded.id].isActive THEN Gate(401, "deactivated", 0)
          ELSE Gate(0, "next", decoded.id)

GateResp(route, status, invoked) ==
  [route |-> route, status |-> status, invoked |-> invoked]

\* router.get('/') of the orders router: reads only
GetOrders(header) ==
  /\ LET g == protect(header, accts, now)
     IN gateResp' = IF g.status = 0 THEN GateResp("getOrders", 200, TRUE)
                    ELSE GateResp("getOrders", g.status, FALSE)
  /\ gateReq' = header
  /\ UNCHANGED <<accts, profile>>
  /\ UNCHANGED <<authVars, loyVars, orderVars, prodVars, acctVars, inboxVars, adminVars, raceVars, signupVars, demoteVars, ownedVars>>

\* router.put('/profile'): a name of nameLen characters, 0 for none
PutProfile(header, nameLen) ==
  /\ LET g == protect(header, accts, now)
     IN IF g.status # 0
        THEN /\ gateResp' = GateResp("putProfile", g.status, FALSE)
             /\ profile' = profile
        ELSE IF nameLen # 0 /\ (nameLen < 2 \/ nameLen > 50)
        THEN /\ gateResp' = GateResp("putProfile", 400, TRUE)
             /\ profile' = profile
        ELSE /\ gateResp' = GateResp("putProfile", 200, TRUE)
             /\ profile' = IF nameLen # 0
                           THEN [profile EXCEPT ![g.user] = nameLen]
                           ELSE profile
  /\ gateReq' = header
  /\ UNCHANGED <<accts>>
  /\ UNCHANGED <<authVars, loyVars, orderVars, prodVars, acctVars, inboxVars, adminVars, raceVars, signupVars, demoteVars, ownedVars>>

\* router.delete('/products/:id', protect, admin, ...): admin is undefined,
\* so registering the route throws while the admin router loads, and a
\* request finds no such route: status 0 stands for "not served by it"
AdminDeleteProduct(header) ==
  /\ ~RouteRegisters({"protect", "admin"})
  /\ gateResp' = GateResp("adminDeleteProduct", 0, FALSE)
  /\ gateReq' = header
  /\ UNCHANGED <<accts, profile>>
  /\ UNCHANGED <<authVars, loyVars, orderVars, prodVars, acctVars, inboxVars, adminVars, raceVars, signupVars, demoteVars, ownedVars>>


(***************************************************************************)
(* The notification routes                                                 *)
(***************************************************************************)
\* the _id values a request can name
NotifIds == 1..MaxInbox

\* no document with that _id
Absent == [user |-> 0, type |-> "none", read |-> FALSE]

\* a stored notification of a user
Notif(u, read) == [user |-> u, type |-> "order", read |-> read]

\* a lookup by _id alone
FindOwned_ById(box, id, caller) == box[id] # Absent

\* Notification.findOne({ _id: id, user: req.user._id }): whether a document
\* matches
FindOwned(box, id, caller) == box[id] # Absent /\ box[id].user = caller

\* notificationSchema.methods.markAsRead
markAsRead(n) == [n EXCEPT !.read = TRUE]

InboxResp(op, caller, id, status) ==
  [op |-> op, caller |-> caller, id |-> id, status |-> status]

\* router.put('/:id/read')
MarkRead(caller, id) ==
  /\ IF ~FindOwned(inbox, id, caller)
     THEN /\ inbox' = inbox
          /\ inboxResp' = InboxResp("markRead", caller, id, 404)
     ELSE /\ inbox' = [inbox EXCEPT ![id] = markAsRead(@)]
          /\ inboxResp' = InboxResp("markRead", caller, id, 200)
  /\ UNCHANGED <<authVars, loyVars, orderVars, prodVars, acctVars, gateVars, adminVars, raceVars, signupVars, demoteVars, ownedVars>>

\* router.put('/read-all'):
\* Notification.updateMany({ user: req.user._id, read: false }, { read: true })
ReadAll(caller) ==
  /\ inbox' = [id \in NotifIds |->
                 IF inbox[id] # Absent /\ inbox[id].user = caller
                    /\ inbox[id].read = FALSE
                 THEN [inbox[id] EXCEPT !.read = TRUE]
                 ELSE inbox[id]]
  /\ inboxResp' = InboxResp("readAll", caller, 0, 200)
  /\ UNCHANGED <<authVars, loyVars, orderVars, prodVars, acctVars, gateVars, adminVars, raceVars, signupVars, demoteVars, ownedVars>>

\* router.delete('/:id'):
\* Notification.findOneAndDelete({ _id: id, user: req.user._id })
DeleteNotification(caller, id) ==
  /\ IF ~FindOwned(inbox, id, caller)
     THEN /\ inbox' = inbox
          /\ inboxResp' = InboxResp("delete", caller, id, 404)
     ELSE /\ inbox' = [inbox EXCEPT ![id] = Absent]
          /\ inboxResp' = InboxResp("delete", caller, id, 200)
  /\ UNCHANGED <<authVars, loyVars, orderVars, prodVars, acctVars, gateVars, adminVars, raceVars, signupVars, demoteVars, ownedVars>>


(***************************************************************************)
(* POST /auth/create-admin                                                 *)
(***************************************************************************)
\* process.env.ADMIN_SECRET: a string, or undefined when it is not set
EnvInputs == {Undefined, <<"right">>}

\* req.body.adminSecret: a string, or undefined when the body has none
SecretInputs == {Undefined, <<"right">>, <<"wrong">>}

\* !(adminSecret !== process.env.ADMIN_SECRET)
SecretMatches(given, configured) == given = configured

AdminReply(us, status) == [users |-> us, status |-> status]

\* router.post('/create-admin'), behind protect
CreateAdminHandler(given, configured, body, us) ==
  IF ~SecretMatches(given, configured)
  THEN AdminReply(us, 403)
  ELSE IF FindByEmail("part002", us, body.email) # 0
  THEN AdminReply(us, 400)
  ELSE LET fields == [SignupFields(body) EXCEPT !.role = "admin"]
           doc == NewAccount("part002", fields)
       IN IF ~AccountValid("part002", fields) \/ ~EmailIndexAllows(us, doc)
          THEN AdminReply(us, 500)
          ELSE AdminReply(Append(us, doc), 201)

CreateAdmin(given, body) ==
  /\ LET r == CreateAdminHandler(given, env, body, staff)
     IN /\ Len(r.users) <= MaxUsers
        /\ staff' = r.users
        /\ adminResp' = [op |-> "createAdmin", secret |-> given,
                         email |-> body.email, status |-> r.status]
  /\ UNCHANGED env
  /\ UNCHANGED <<authVars, loyVars, orderVars, prodVars, acctVars, gateVars,
                 inboxVars, raceVars, signupVars, demoteVars, ownedVars>>


(***************************************************************************)
(* Concurrent logins of one account                                        *)
(***************************************************************************)
\* the requests in flight
Clients == 1..MaxLogins

\* the time of the requests; no lock expires while they run
RaceNow == 0

IdleLogin == [pc |-> "idle", doc |-> NewUserAuthJs(TRUE)]

\* routes/auth.js: user.failedLoginAttempts += 1, the lock when it reaches
\* the threshold, then user.save(), which writes the paths modified on the
\* loaded document doc into the stored document db
SaveFailedAttempt(db, doc, t) ==
  LET n == doc.failedLoginAttempts + 1
  IN [db EXCEPT !.failedLoginAttempts = n,
                !.lockUntil = IF n >= LockThreshold THEN t + LockMsAuthJs ELSE @]

\* userSchema.methods.incLoginAttempts on the loaded document doc:
\* this.updateOne(...) applies $set / $unset / $inc to the stored document db
incLoginAttemptsUpdate(db, doc, t) ==
  IF doc.lockUntil # Null /\ doc.lockUntil < t
  THEN [db EXCEPT !.lockUntil = Null, !.loginAttempts = 1]
  ELSE IF doc.loginAttempts + 1 >= LockThreshold /\ ~isLocked(doc, t)
       THEN [db EXCEPT !.loginAttempts = @ + 1, !.lockUntil = t + LockMsUserJs]
       ELSE [db EXCEPT !.loginAttempts = @ + 1]

\* the login handlers up to the password comparison: User.findOne({ email }),
\* the lock check (and the isActive check of routes/auth.js) on the loaded
\* document, then the comparison of the wrong password
LoginLoad(c) ==
  /\ logins[c].pc = "idle"
  /\ evaluated < MaxCount
  /\ IF isLocked(account, RaceNow)
     THEN /\ raceResp' = [client |-> c, status |-> 423]
          /\ UNCHANGED <<logins, evaluated>>
     ELSE IF raceVariant = "authjs" /\ ~account.isActive
     THEN /\ raceResp' = [client |-> c, status |-> 401]
          /\ UNCHANGED <<logins, evaluated>>
     ELSE /\ logins' = [logins EXCEPT ![c] = [pc |-> "compared", doc |-> account]]
          /\ evaluated' = evaluated + 1
          /\ raceResp' = [client |-> c, status |-> 0]
  /\ UNCHANGED <<raceVariant, account>>
  /\ UNCHANGED <<authVars, loyVars, orderVars, prodVars, acctVars, gateVars,
                 inboxVars, adminVars, signupVars, demoteVars, ownedVars>>

\* the rest of the handler for a wrong password: the attempt is counted and
\* the request is answered 401
LoginCount(c) ==
  /\ logins[c].pc = "compared"
  /\ account' = IF raceVariant = "authjs"
                THEN SaveFailedAttempt(account, logins[c].doc, RaceNow)
                ELSE incLoginAttemptsUpdate(account, logins[c].doc, RaceNow)
  /\ logins' = [logins EXCEPT ![c] = IdleLogin]
  /\ raceResp' = [client |-> c, status |-> 401]
  /\ UNCHANGED <<raceVariant, evaluated>>
  /\ UNCHANGED <<authVars, loyVars, orderVars, prodVars, acctVars, gateVars,
                 inboxVars, adminVars, signupVars, demoteVars, ownedVars>>


(***************************************************************************)
(* Concurrent signups                                                      *)
(***************************************************************************)
\* the requests in flight
Signers == 1..MaxSignups

\* no request of the client yet
NoSignup ==
  [pc |-> "idle", body |-> Body(0, <<>>, Tiny, "undefined", 0), status |-> 0,
   msg |-> "none", lost |-> FALSE]

\* router.post('/signup') / router.post('/register') up to the await of
\* User.findOne({ email }): the validators, then the existence check
SignupCheck(c, body) ==
  /\ signups[c].pc = "idle"
  /\ signups' =
       [signups EXCEPT ![c] =
          IF ~SignupBodyValid(signupVariant, body)
          THEN [pc |-> "idle", body |-> body, status |-> 400,
                msg |-> "invalid", lost |-> FALSE]
          ELSE IF FindByEmail(signupVariant, registry, body.email) # 0
          THEN [pc |-> "idle", body |-> body, status |-> 400,
                msg |-> "duplicate", lost |-> FALSE]
          ELSE [pc |-> "checked", body |-> body, status |-> 0,
                msg |-> "none", lost |-> FALSE]]
  /\ UNCHANGED <<signupVariant, registry>>
  /\ UNCHANGED <<authVars, loyVars, orderVars, prodVars, acctVars, gateVars,
                 inboxVars, adminVars, raceVars, demoteVars, ownedVars>>

\* the rest of the handler: User.create({ name, email, password }) and the
\* answer, or the catch
SignupCreate(c) ==
  /\ signups[c].pc = "checked"
  /\ LET fields == SignupFields(signups[c].body)
         doc == NewAccount(signupVariant, fields)
         valid == AccountValid(signupVariant, fields)
         free == EmailIndexAllows(registry, doc)
         status == IF valid /\ free THEN 201
                   ELSE IF valid /\ signupVariant = "authjs" THEN 400
                   ELSE 500
     IN /\ Len(registry) < MaxUsers \/ ~(valid /\ free)
        /\ registry' = IF valid /\ free THEN Append(registry, doc) ELSE registry
        /\ signups' =
             [signups EXCEPT ![c] =
                [pc |-> "idle", body |-> signups[c].body, status |-> status,
                 msg |-> IF status = 201 THEN "created"
                         ELSE IF status = 400 THEN "duplicate" ELSE "error",
                 lost |-> valid /\ ~free]]
  /\ UNCHANGED <<signupVariant>>
  /\ UNCHANGED <<authVars, loyVars, orderVars, prodVars, acctVars, gateVars,
                 inboxVars, adminVars, raceVars, demoteVars, ownedVars>>


(***************************************************************************)
(* PUT /admin/admins/:id/demote                                            *)
(***************************************************************************)
\* the requests in flight
Demoters == 1..MaxDemotes

\* a request: its position, the caller and the caller's role as protect
\* loaded it, the :id of the path, and the answer (0 while there is none)
Demote(pc, caller, role, target, status) ==
  [pc |-> pc, caller |-> caller, role |-> role, target |-> target,
   status |-> status]

NoDemote == Demote("idle", 0, "none", 0, 0)

\* the role check in front of the admin routes: 403 unless req.user is an
\* admin
adminGate(role) == IF role = "admin" THEN 0 ELSE 403

\* protect: req.user = await User.findById(decoded.id), for a valid token of
\* an active user
DemoteAuth(c, caller, target) ==
  /\ demotes[c].pc = "idle"
  /\ demotes' = [demotes EXCEPT ![c] =
                   Demote("authed", caller, roles[caller], target, 0)]
  /\ UNCHANGED roles
  /\ UNCHANGED <<authVars, loyVars, orderVars, prodVars, acctVars, gateVars,
                 inboxVars, adminVars, raceVars, signupVars, ownedVars>>

\* the role check, the handler's test of req.user._id against :id, then
\* await User.findById(req.params.id) and the test of the role it holds
DemoteFind(c) ==
  /\ demotes[c].pc = "authed"
  /\ LET d == demotes[c]
         status == IF adminGate(d.role) # 0 THEN adminGate(d.role)
                   ELSE IF d.caller = d.target THEN 400
                   ELSE IF roles[d.target] # "admin" THEN 404
                   ELSE 0
     IN demotes' = [demotes EXCEPT ![c] =
                      IF status = 0 THEN [d EXCEPT !.pc = "found"]
                      ELSE [d EXCEPT !.pc = "idle", !.status = status]]
  /\ UNCHANGED roles
  /\ UNCHANGED <<authVars, loyVars, orderVars, prodVars, acctVars, gateVars,
                 inboxVars, adminVars, raceVars, signupVars, ownedVars>>

\* adminUser.role = 'user'; await adminUser.save()
DemoteSave(c) ==
  /\ demotes[c].pc = "found"
  /\ roles' = [roles EXCEPT ![demotes[c].target] = "user"]
  /\ demotes' = [demotes EXCEPT ![c] = [@ EXCEPT !.pc = "idle", !.status = 200]]
  /\ UNCHANGED <<authVars, loyVars, orderVars, prodVars, acctVars, gateVars,
                 inboxVars, adminVars, raceVars, signupVars, ownedVars>>


(***************************************************************************)
(* The order routes and the owner of an order                              *)
(***************************************************************************)
\* the users that place and ask for orders
Owners == {"u1", "u2"}

\* the :id values of the requests: each order and one id of no order
OwnedIds == 1..(MaxOwned + 1)

\* the status values the requests carry: the one a save keeps decrementing
\* the stock for, another of the enum, and one outside it
OwnedStatusInputs == {"pending", "shipped", "Annulée"}

\* a persisted order of a user
OwnedOrder(owner, status, items) ==
  [NewOrderDoc(<<0>>, items, SumItems(items), "card") EXCEPT
     !.user = owner, !.status = status]

\* the answer of an order route: the route, req.user._id, :id (0 without
\* one), the status code, the orders the body shows and whether a
\* notification for the caller was stored
OwnResp(op, caller, id, code, seen, notified) ==
  [op |-> op, caller |-> caller, id |-> id, code |-> code, seen |-> seen,
   notified |-> notified]

NoOwnResp == OwnResp("none", "none", 0, 0, {}, FALSE)

FindOwnedOrder_ById(ords, id, caller) ==
  IF id \in 1..Len(ords) THEN id ELSE 0

\* Order.findOne({ _id: req.params.id, user: req.user._id }); 0 for null
FindOwnedOrder(ords, id, caller) ==
  IF id \in 1..Len(ords) /\ ords[id].user = caller THEN id ELSE 0

\* router.get('/'): Order.find({ user: req.user._id })
ListOwned(caller) ==
  /\ ownResp' = OwnResp("list", caller, 0, 200,
                        {i \in 1..Len(ledger) : ledger[i].user = caller},
                        FALSE)
  /\ UNCHANGED <<ledger, shelf>>
  /\ UNCHANGED <<authVars, loyVars, orderVars, prodVars, acctVars, gateVars,
                 inboxVars, adminVars, raceVars, signupVars, demoteVars>>

\* router.get('/:id') and router.get('/:id/invoice')
ShowOwned(op, caller, id) ==
  /\ LET found == FindOwnedOrder(ledger, id, caller)
     IN ownResp' = IF found = 0
                   THEN OwnResp(op, caller, id, 404, {}, FALSE)
                   ELSE OwnResp(op, caller, id, 200, {found}, FALSE)
  /\ UNCHANGED <<ledger, shelf>>
  /\ UNCHANGED <<authVars, loyVars, orderVars, prodVars, acctVars, gateVars,
                 inboxVars, adminVars, raceVars, signupVars, demoteVars>>

\* router.post('/:id/cancel') for the caller req.user._id
CancelOwned(caller, id, dbOk) ==
  /\ LET found == FindOwnedOrder(ledger, id, caller)
     IN IF found = 0
        THEN /\ ownResp' = OwnResp("cancel", caller, id, 404, {}, FALSE)
             /\ UNCHANGED <<ledger, shelf>>
        ELSE IF ledger[found].status = "Annulée"
                \/ ledger[found].status = "Livrée"
        THEN /\ ownResp' = OwnResp("cancel", caller, id, 400, {}, FALSE)
             /\ UNCHANGED <<ledger, shelf>>
        ELSE LET r == SaveStatus(found, "Annulée", ledger, shelf)
                 created == r.ok /\ CreateNotification("order", dbOk)
             IN /\ ledger' = r.orders
                /\ shelf' = r.stock
                /\ ownResp' = OwnResp("cancel", caller, id,
                                      IF created THEN 200 ELSE 500,
                                      IF created THEN {found} ELSE {}, created)
  /\ UNCHANGED <<authVars, loyVars, orderVars, prodVars, acctVars, gateVars,
                 inboxVars, adminVars, raceVars, signupVars, demoteVars>>

\* router.put('/:id/status') of the orders router for the caller
\* req.user._id
PutStatusOwned(caller, id, status, dbOk) ==
  /\ LET found == FindOwnedOrder(ledger, id, caller)
     IN IF found = 0
        THEN /\ ownResp' = OwnResp("putStatus", caller, id, 404, {}, FALSE)
             /\ UNCHANGED <<ledger, shelf>>
        ELSE LET r == SaveStatus(found, status, ledger, shelf)
                 created == r.ok /\ CreateNotification("order", dbOk)
             IN /\ StockInBounds(r.stock)
                /\ ledger' = r.orders
                /\ shelf' = r.stock
                /\ ownResp' = OwnResp("putStatus", caller, id,
                                      IF created THEN 200 ELSE 500,
                                      IF created THEN {found} ELSE {}, created)
  /\ UNCHANGED <<authVars, loyVars, orderVars, prodVars, acctVars, gateVars,
                 inboxVars, adminVars, raceVars, signupVars, demoteVars>>

(***************************************************************************)
(* Specifications                                                          *)
(***************************************************************************)
AuthInit ==
  /\ variant \in Variants
  /\ \E active \in BOOLEAN :
       user = IF variant = "authjs" THEN NewUserAuthJs(active)
              ELSE NewUserUserJs(active)
  /\ now = 0
  /\ streak = 0
  /\ sinceOk = 0
  /\ expired = FALSE
  /\ loginResp = NoLoginResp

LoyInit ==
  /\ \E s \in Stores : member = NewMember(s)
  /\ loyResp = [op |-> "none", arg |-> 0]

AuthIdle ==
  /\ variant = "authjs"
  /\ user = NewUserAuthJs(TRUE)
  /\ now = 0
  /\ streak = 0
  /\ sinceOk = 0
  /\ expired = FALSE
  /\ loginResp = NoLoginResp

LoyIdle ==
  /\ member = NewMember("part005")
  /\ loyResp = [op |-> "none", arg |-> 0]

OrderInit ==
  /\ stock = [p \in Products |-> InitStock]
  /\ orders = <<>>
  /\ orderResp = NoOrderResp
  /\ saves = [p \in Savers |-> IdleSave]
  /\ notifs = 0
  /\ notifErr = FALSE
  /\ placed = [begun |-> 0, qty |-> [p \in Products |-> 0]]

ProductInit ==
  /\ product = NoProduct
  /\ prodResp = ProdResp("none", TRUE)

AcctInit ==
  /\ server \in Servers
  /\ \E active \in BOOLEAN :
       users \in {<<>>,
                  <<[NewAccount(server, SignupFields(Body(5, <<"c", "@", "b">>,
                                                         Strong, "undefined", 0)))
                      EXCEPT !.sec.isActive = active]>>}
  /\ acctReq = NoAcctRequest
  /\ acctResp = NoAcctResp

AcctIdle ==
  /\ server = "authjs"
  /\ users = <<>>
  /\ acctReq = NoAcctRequest
  /\ acctResp = NoAcctResp

GateInit ==
  /\ accts \in [Ids -> [exists : BOOLEAN, isActive : BOOLEAN, role : {"user"}]]
  /\ profile = [id \in Ids |-> 5]
  /\ gateReq = Header("none", Jwt(1, 1, "secret", FALSE))
  /\ gateResp = GateResp("none", 0, FALSE)

GateIdle ==
  /\ accts = [id \in Ids |-> [exists |-> TRUE, isActive |-> TRUE, role |-> "user"]]
  /\ profile = [id \in Ids |-> 5]
  /\ gateReq = Header("none", Jwt(1, 1, "secret", FALSE))
  /\ gateResp = GateResp("none", 0, FALSE)

AuthNext ==
  \/ LoginWrong
  \/ LoginRight
  \/ Tick

LoyNext ==
  \/ \E p \in PointInputs : EarnPoints(p)
  \/ \E i \in ImpactInputs : PutImpact(i[1], i[2], i[3])
  \/ \E p \in PointInputs : AddPoints(p)
  \/ \E i \in SqliteImpactInputs : PutImpactSqlite(i[1], i[2], i[3])

OrderNext ==
  \/ \E number \in {<<>>, <<0>>}, items \in ItemLists, total \in TotalInputs,
        pm \in {"card", "Stripe"} : OrderSaveNew(number, items, total, pm)
  \/ \E items \in ItemLists, total \in TotalInputs, pm \in {"card", "Stripe"},
        dbOk \in BOOLEAN : PostOrder(items, total, pm, dbOk)
  \/ \E id \in OrderIds, dbOk \in BOOLEAN : PostCancel(id, dbOk)
  \/ \E id \in OrderIds, status \in StatusInputs, dbOk \in BOOLEAN :
        PutStatus(id, status, dbOk)
  \/ \E id \in OrderIds, status \in StatusInputs, dbOk \in BOOLEAN :
        AdminPutStatus(id, status, dbOk)

SavesNext ==
  \/ \E p \in Savers, number \in {<<>>, <<0>>}, items \in {<<>>, ExampleItems} :
        SaveBegin(p, number, items, 30)
  \/ \E p \in Savers : SaveInsert(p)
  \/ \E p \in Savers : SaveStock(p)

ProductNext ==
  \/ \E reviews \in {<<>>, <<5>>, <<0>>}, average \in AverageInputs,
        count \in CountInputs : CreateProduct(reviews, average, count)
  \/ \E rating \in Ratings : AddReview(rating)
  \/ \E i \in 1..MaxReviews : RemoveReview(i)
  \/ \E average \in AverageInputs, count \in CountInputs :
        UpdateProduct(average, count)
  \/ DeleteProduct

AcctNext ==
  \/ \E body \in BodyInputs : Signup(body)
  \/ \E email \in EmailInputs, pw \in PasswordInputs : LoginEmail(email, pw)

GateNext ==
  \/ \E header \in HeaderInputs : GetOrders(header)
  \/ \E header \in HeaderInputs, nameLen \in {0, 1, 7} : PutProfile(header, nameLen)
  \/ \E header \in HeaderInputs : AdminDeleteProduct(header)


InboxInit ==
  /\ inbox \in [NotifIds -> {Absent} \cup {Notif(u, r) : u \in Ids, r \in BOOLEAN}]
  /\ inboxResp = InboxResp("none", 0, 0, 0)

InboxIdle ==
  /\ inbox = [id \in NotifIds |-> Absent]
  /\ inboxResp = InboxResp("none", 0, 0, 0)

InboxNext ==
  \/ \E caller \in Ids, id \in NotifIds : MarkRead(caller, id)
  \/ \E caller \in Ids : ReadAll(caller)
  \/ \E caller \in Ids, id \in NotifIds : DeleteNotification(caller, id)


NoAdminResp ==
  [op |-> "none", secret |-> Undefined, email |-> <<>>, status |-> 0]

\* the store is empty or holds one user who signed up
CreateAdminInit ==
  /\ env \in EnvInputs
  /\ staff \in {<<>>,
                <<NewAccount("part002",
                             SignupFields(Body(5, <<"c", "@", "b">>, Strong,
                                               "undefined", 0)))>>}
  /\ adminResp = NoAdminResp

CreateAdminIdle ==
  /\ env = Undefined
  /\ staff = <<>>
  /\ adminResp = NoAdminResp

CreateAdminNext ==
  \E given \in SecretInputs, e \in EmailInputs, pw \in {Strong, Tiny} :
    CreateAdmin(given, Body(5, e, pw, "undefined", 0))


LoginRaceInit ==
  /\ raceVariant \in Variants
  /\ account = IF raceVariant = "authjs" THEN NewUserAuthJs(TRUE)
               ELSE NewUserUserJs(TRUE)
  /\ logins = [c \in Clients |-> IdleLogin]
  /\ evaluated = 0
  /\ raceResp = [client |-> 0, status |-> 0]

LoginRaceIdle ==
  /\ raceVariant = "authjs"
  /\ account = NewUserAuthJs(TRUE)
  /\ logins = [c \in Clients |-> IdleLogin]
  /\ evaluated = 0
  /\ raceResp = [client |-> 0, status |-> 0]

LoginRaceNext ==
  \/ \E c \in Clients : LoginLoad(c)
  \/ \E c \in Clients : LoginCount(c)


SignupRaceInit ==
  /\ signupVariant \in Variants
  /\ registry = <<>>
  /\ signups = [c \in Signers |-> NoSignup]

SignupRaceIdle ==
  /\ signupVariant = "authjs"
  /\ registry = <<>>
  /\ signups = [c \in Signers |-> NoSignup]

SignupRaceNext ==
  \/ \E c \in Signers, e \in EmailInputs, pw \in {Strong, Tiny} :
        SignupCheck(c, Body(5, e, pw, "undefined", 0))
  \/ \E c \in Signers : SignupCreate(c)


\* at least one user is an admin
DemoteInit ==
  /\ roles \in [Ids -> {"admin", "user"}]
  /\ \E id \in Ids : roles[id] = "admin"
  /\ demotes = [c \in Demoters |-> NoDemote]

DemoteIdle ==
  /\ roles = [id \in Ids |-> "admin"]
  /\ demotes = [c \in Demoters |-> NoDemote]

DemoteNext ==
  \/ \E c \in Demoters, caller \in Ids, target \in Ids :
        DemoteAuth(c, caller, target)
  \/ \E c \in Demoters : DemoteFind(c)
  \/ \E c \in Demoters : DemoteSave(c)


\* newly placed orders, each of one of the users
OwnedInit ==
  /\ ledger \in
       UNION {[1..n -> {OwnedOrder(u, "pending", ExampleItems) :
                          u \in Owners}] : n \in 1..MaxOwned}
  /\ shelf = [p \in Products |-> InitStock]
  /\ ownResp = NoOwnResp

OwnedIdle ==
  /\ ledger = <<>>
  /\ shelf = [p \in Products |-> InitStock]
  /\ ownResp = NoOwnResp

OwnedNext ==
  \/ \E caller \in Owners : ListOwned(caller)
  \/ \E op \in {"get", "invoice"}, caller \in Owners, id \in OwnedIds :
        ShowOwned(op, caller, id)
  \/ \E caller \in Owners, id \in OwnedIds, dbOk \in BOOLEAN :
        CancelOwned(caller, id, dbOk)
  \/ \E caller \in Owners, id \in OwnedIds, status \in OwnedStatusInputs,
        dbOk \in BOOLEAN : PutStatusOwned(caller, id, status, dbOk)

InitAuth == AuthInit /\ LoyIdle /\ OrderInit /\ ProductInit /\ AcctIdle /\ GateIdle /\ InboxIdle
  /\ CreateAdminIdle
  /\ LoginRaceIdle
  /\ SignupRaceIdle
  /\ DemoteIdle
  /\ OwnedIdle

InitLoyalty == LoyInit /\ AuthIdle /\ OrderInit /\ ProductInit /\ AcctIdle /\ GateIdle /\ InboxIdle
  /\ CreateAdminIdle
  /\ LoginRaceIdle
  /\ SignupRaceIdle
  /\ DemoteIdle
  /\ OwnedIdle

InitOrder == OrderInit /\ AuthIdle /\ LoyIdle /\ ProductInit /\ AcctIdle /\ GateIdle /\ InboxIdle
  /\ CreateAdminIdle
  /\ LoginRaceIdle
  /\ SignupRaceIdle
  /\ DemoteIdle
  /\ OwnedIdle

InitProduct == ProductInit /\ AuthIdle /\ LoyIdle /\ OrderInit /\ AcctIdle /\ GateIdle /\ InboxIdle
  /\ CreateAdminIdle
  /\ LoginRaceIdle
  /\ SignupRaceIdle
  /\ DemoteIdle
  /\ OwnedIdle

InitAccounts ==
  AcctInit /\ AuthIdle /\ LoyIdle /\ OrderInit /\ ProductInit /\ GateIdle /\ InboxIdle
  /\ CreateAdminIdle
  /\ LoginRaceIdle
  /\ SignupRaceIdle
  /\ DemoteIdle
  /\ OwnedIdle

\* signups and logins by email against one user store
SpecAccounts == InitAccounts /\ [][AcctNext]_vars

InitGate ==
  GateInit /\ AuthIdle /\ LoyIdle /\ OrderInit /\ ProductInit /\ AcctIdle /\ InboxIdle
  /\ CreateAdminIdle
  /\ LoginRaceIdle
  /\ SignupRaceIdle
  /\ DemoteIdle
  /\ OwnedIdle

\* requests to routes behind the auth gate
SpecGate == InitGate /\ [][GateNext]_vars

\* logins of one account and the passing of time
SpecAuth == InitAuth /\ [][AuthNext]_vars

\* the loyalty and impact updates of one user
SpecLoyalty == InitLoyalty /\ [][LoyNext]_vars

\* the order routes and the model's save(), one request at a time
SpecOrder == InitOrder /\ [][OrderNext]_vars

\* save() calls of new orders, interleaved at their awaits
SpecSaves == InitOrder /\ [][SavesNext]_vars

\* saves and updates of one product
SpecProduct == InitProduct /\ [][ProductNext]_vars

InitInbox ==
  InboxInit /\ AuthIdle /\ LoyIdle /\ OrderInit /\ ProductInit
  /\ AcctIdle /\ GateIdle
  /\ CreateAdminIdle
  /\ LoginRaceIdle
  /\ SignupRaceIdle
  /\ DemoteIdle
  /\ OwnedIdle

\* requests to the notification routes by authenticated users
SpecInbox == InitInbox /\ [][InboxNext]_vars

InitCreateAdmin ==
  CreateAdminInit /\ AuthIdle /\ LoyIdle /\ OrderInit /\ ProductInit
  /\ AcctIdle /\ GateIdle /\ InboxIdle
  /\ LoginRaceIdle
  /\ SignupRaceIdle
  /\ DemoteIdle
  /\ OwnedIdle

\* requests to POST /auth/create-admin by authenticated users
SpecCreateAdmin == InitCreateAdmin /\ [][CreateAdminNext]_vars

InitLoginRace ==
  LoginRaceInit /\ AuthIdle /\ LoyIdle /\ OrderInit /\ ProductInit
  /\ AcctIdle /\ GateIdle /\ InboxIdle /\ CreateAdminIdle
  /\ SignupRaceIdle
  /\ DemoteIdle
  /\ OwnedIdle

\* wrong-password logins of one account, interleaved at their awaits
SpecLoginRace == InitLoginRace /\ [][LoginRaceNext]_vars

InitSignupRace ==
  SignupRaceInit /\ AuthIdle /\ LoyIdle /\ OrderInit /\ ProductInit
  /\ AcctIdle /\ GateIdle /\ InboxIdle /\ CreateAdminIdle /\ LoginRaceIdle
  /\ DemoteIdle
  /\ OwnedIdle

\* signups interleaved at their awaits
SpecSignupRace == InitSignupRace /\ [][SignupRaceNext]_vars

InitDemote ==
  DemoteInit /\ AuthIdle /\ LoyIdle /\ OrderInit /\ ProductInit
  /\ AcctIdle /\ GateIdle /\ InboxIdle /\ CreateAdminIdle /\ LoginRaceIdle
  /\ SignupRaceIdle
  /\ OwnedIdle

\* demote requests by authenticated users, interleaved at their awaits
SpecDemote == InitDemote /\ [][DemoteNext]_vars

InitOwned ==
  OwnedInit /\ AuthIdle /\ LoyIdle /\ OrderInit /\ ProductInit
  /\ AcctIdle /\ GateIdle /\ InboxIdle /\ CreateAdminIdle /\ LoginRaceIdle
  /\ SignupRaceIdle /\ DemoteIdle

\* the order routes called by either user on the orders of both
SpecOwned == InitOwned /\ [][OwnedNext]_vars

(***************************************************************************)
(* C1: login lockout                                                       *)
(***************************************************************************)
Locked == isLocked(user, now)

LastAttemptNow == loginResp.status # 0 /\ loginResp.at = now

\* every login attempt made while the account was locked got 423 and no token
LockedMeans423 ==
  loginResp.wasLocked => loginResp.status = 423 /\ ~loginResp.token

\* C1 as stated: for every account, right after 5 consecutive login attempts
\* with a wrong password the account is locked (lockUntil lies in the future),
\* and every attempt made before lockUntil, with any password, is answered
\* 423 and issues no token.
C1_EveryAccountLocks ==
  /\ (streak = LockThreshold /\ LastAttemptNow) => Locked
  /\ LockedMeans423

\* C1 amended: for every account the login checks the password of (any
\* account of the part002 variant, an active account of routes/auth.js), the
\* 5th wrong password since the account's creation or last successful login
\* sets lockUntil to the attempt's time plus the variant's lock duration, and
\* every attempt made before lockUntil, with any password, is answered 423
\* and issues no token.
C1_ActiveAccountLocks ==
  /\ ( /\ variant = "part002" \/ user.isActive
       /\ sinceOk = LockThreshold
       /\ ~loginResp.pwOk
       /\ LastAttemptNow )
     => (Locked /\ user.lockUntil = now + LockMs(variant))
  /\ LockedMeans423

\* the 6th attempt, with the correct password, on an active account locked
\* by 5 wrong passwords, answered 423
C1_Witness ==
  /\ user.isActive
  /\ sinceOk = LockThreshold
  /\ streak = 0
  /\ loginResp.pwOk
  /\ loginResp.wasLocked
  /\ loginResp.status = 423

(***************************************************************************)
(* C2: stored tier                                                         *)
(***************************************************************************)
\* C2 as stated: in every reachable state the stored tier is the highest of
\* bronze(0) < silver(100) < gold(500) < platinum(1000) whose threshold is
\* <= loyaltyPoints.
C2_TierMatchesPoints == TierRank(member.tier) = RankOf(member.loyaltyPoints)

(***************************************************************************)
(* C3: order numbers                                                       *)
(***************************************************************************)
\* C3: for every interleaving of concurrent saves of new orders, the order
\* numbers of the persisted orders are pairwise distinct and strictly
\* increasing in the order of their insertion.
C3_OrderNumbersDistinctIncreasing ==
  \A i, j \in 1..Len(orders) :
    i < j => /\ orders[i].orderNumber # orders[j].orderNumber
             /\ NumberOf(orders[i].orderNumber) < NumberOf(orders[j].orderNumber)

\* two saves counted the same number of documents: one was inserted, the
\* other was refused by the unique index, and two orders are persisted
C3_Witness ==
  /\ Len(orders) >= 2
  /\ orderResp.err = "E11000"

(***************************************************************************)
(* C4, C5, C6: cancellation and terminal statuses                          *)
(***************************************************************************)
\* the last request asked to cancel order id
CancelRequested(id) ==
  /\ orderResp.id = id
  /\ \/ orderResp.op = "cancel"
     \/ orderResp.op = "adminStatus" /\ orderResp.status = "cancelled"

\* C4 as stated: a cancellation (POST /orders/:id/cancel, or the admin status
\* route with status cancelled) of an order whose stored status is pending
\* adds each of its items' quantity back to that product's stock.
C4_CancelRestoresStock ==
  [][ \A id \in 1..Len(orders) :
        (orders[id].status = "pending" /\ CancelRequested(id)')
        => stock' = AdjustStock(orders[id].items, stock, 1) ]_vars

\* C5 as stated: POST /orders/:id/cancel for an order whose stored status is
\* cancelled or delivered is answered 400 and changes neither the order nor
\* any stock.
C5_CancelOfTerminalIs400 ==
  [][ \A id \in 1..Len(orders) :
        ( /\ orders[id].status \in {"cancelled", "delivered"}
          /\ orderResp'.op = "cancel"
          /\ orderResp'.id = id )
        => (orderResp'.code = 400 /\ orders' = orders /\ stock' = stock) ]_vars

\* C6 as stated: once an order's stored status is delivered or cancelled, no
\* later operation changes it.
C6_TerminalStatusStays ==
  [][ \A id \in 1..Len(orders) :
        orders[id].status \in {"delivered", "cancelled"}
        => orders'[id].status = orders[id].status ]_vars

(***************************************************************************)
(* C7: order total                                                         *)
(***************************************************************************)
\* C7 as stated: the total of every persisted order is the sum of
\* price * quantity over its items, whatever total the client sent, an empty
\* item list included.
C7_TotalIsSumOfItems ==
  \A id \in 1..Len(orders) : orders[id].total = SumItems(orders[id].items)

(***************************************************************************)
(* C8: product rating                                                      *)
(***************************************************************************)
\* the arithmetic mean of the ratings, 0 for an empty list
MeanOrZero(reviews) ==
  IF reviews = <<>> THEN Zero
  ELSE Quotient(totalRating(reviews), Len(reviews))

\* C8 as stated: after every save of a product, reviewCount is the length of
\* its review list and averageRating is the mean of the review ratings, 0
\* when the list is empty.
C8_RatingMatchesReviews ==
  (prodResp.op \in {"create", "addReview", "removeReview"} /\ prodResp.ok)
  => /\ product.reviewCount = Len(product.reviews)
     /\ product.averageRating = MeanOrZero(product.reviews)

(***************************************************************************)
(* C9, C10: stock                                                          *)
(***************************************************************************)
\* C9 as stated: the save that places an order takes each item's quantity off
\* its product's stock, and a later save of the order that is not a
\* cancellation (a status update through PUT /orders/:id/status) leaves
\* every stock unchanged.
C9_StockDeductedOnce ==
  [][ /\ (orderResp'.op = "save" /\ orderResp'.code = 201)
         => stock' = AdjustStock(orders'[Len(orders')].items, stock, -1)
      /\ ( /\ orderResp'.op = "putStatus"
           /\ orderResp'.code = 200
           /\ orderResp'.status # "cancelled" )
         => stock' = stock ]_vars

\* C10 as stated: the stock of every product is a non-negative integer in
\* every reachable state.
C10_StockNonNegative ==
  \A p \in Products : stock[p] \in Nat

(***************************************************************************)
(* C11, C12, C15, C16: signup and login by email                           *)
(***************************************************************************)
AtMostOneUserPerEmail ==
  \A i, j \in 1..Len(users) : i # j => users[i].email # users[j].email

\* C11: a signup whose email is already registered is answered 400, with
\* the duplicate-email message when the body passes the route's validators,
\* and creates no user; at most one user exists per email.
C11_DuplicateSignupRejected ==
  /\ []AtMostOneUserPerEmail
  /\ [][ (acctReq'.op = "signup" /\ Registered(users, acctReq'.email))
         => /\ acctResp'.status = 400
            /\ acctReq'.valid => acctResp'.msg = "duplicate"
            /\ users' = users ]_vars

\* a second signup with the email of an account an earlier signup created,
\* answered 400 duplicate
C11_Witness ==
  /\ acctReq.op = "signup"
  /\ acctReq.registered
  /\ Lowercase(acctReq.email) = <<"a", "@", "b">>
  /\ acctResp.status = 400
  /\ acctResp.msg = "duplicate"

\* C12: the user object of every successful signup and login, in all three
\* implementations, has no password field.
C12_NoPasswordReturned ==
  acctResp.status \in {200, 201} => "password" \notin DOMAIN acctResp.user

\* a successful login through routes/auth.js, whose query selects the hash
C12_Witness ==
  /\ server = "authjs"
  /\ acctReq.op = "login"
  /\ acctResp.status = 200
  /\ "email" \in DOMAIN acctResp.user

\* the answer to a login with an email no account has
UnknownEmailReply ==
  LET r == LoginByEmail(server, <<"z", "@", "b">>, Tiny, users, now)
  IN <<r.status, r.msg>>

\* C15 as stated: a login with a wrong password for a registered email, in
\* any account state, gets the status and message of a login with an
\* unregistered email.
C15_UniformLoginFailure ==
  (acctReq.op = "login" /\ acctReq.registered /\ ~acctReq.pwOk)
  => <<acctResp.status, acctResp.msg>> = UnknownEmailReply

\* C15 amended: the same, for an account that is not locked and, in
\* routes/auth.js, not deactivated.
C15_UniformUnlessLockedOrDeactivated ==
  ( /\ acctReq.op = "login"
    /\ acctReq.registered
    /\ ~acctReq.pwOk
    /\ ~acctReq.wasLocked
    /\ server = "authjs" => acctReq.wasActive )
  => <<acctResp.status, acctResp.msg>> = UnknownEmailReply

\* a wrong password for a registered, active, unlocked account, answered 401
C15_Witness ==
  /\ acctReq.op = "login"
  /\ acctReq.registered
  /\ ~acctReq.pwOk
  /\ acctReq.wasActive
  /\ ~acctReq.wasLocked
  /\ acctResp.status = 401

\* C16 as stated: the user a signup creates has role user, loyaltyPoints 0,
\* zero impact counters and the bronze tier, whatever the body carries.
C16_SignupDefaults ==
  (acctReq.op = "signup" /\ acctResp.status = 201)
  => LET u == users[Len(users)]
     IN /\ u.role = "user"
        /\ u.loyaltyPoints = 0
        /\ u.totalCO2Saved = 0
        /\ u.totalWaterSaved = 0
        /\ u.totalOrangesRecycled = 0
        /\ TierRank(u.tier) = 0

(***************************************************************************)
(* C13, C14: the auth gate                                                 *)
(***************************************************************************)
\* the request carries no bearer token, an invalid or expired one, or one
\* whose user does not exist or is deactivated
BadCredential(header) ==
  \/ header.scheme # "Bearer"
  \/ ~header.token.wellFormed
  \/ header.token.key # "secret"
  \/ now >= header.token.exp
  \/ ~accts[header.token.sub].exists
  \/ ~accts[header.token.sub].isActive

ProtectedRoutes == {"getOrders", "putProfile"}

\* C13: a request to a route behind protect with no token, an invalid or
\* expired token, or a token whose user is gone or deactivated is answered
\* 401, its handler does not run and no stored record changes.
C13_ProtectRejects ==
  /\ []( (gateResp.route \in ProtectedRoutes /\ BadCredential(gateReq))
         => (gateResp.status = 401 /\ ~gateResp.invoked) )
  /\ [][ (gateResp'.route \in ProtectedRoutes /\ BadCredential(gateReq'))
         => (profile' = profile /\ accts' = accts) ]_vars

\* PUT /profile with a live, well-signed token of a deactivated user: 401
C13_Witness ==
  /\ gateResp.route = "putProfile"
  /\ gateReq.scheme = "Bearer"
  /\ gateReq.token.wellFormed
  /\ gateReq.token.key = "secret"
  /\ now < gateReq.token.exp
  /\ accts[gateReq.token.sub].exists
  /\ ~accts[gateReq.token.sub].isActive
  /\ gateResp.status = 401

\* C14 as stated: an admin route called by an authenticated user whose role
\* is not admin is answered 403 and its handler does not run.
C14_NonAdminGets403 ==
  ( /\ gateResp.route = "adminDeleteProduct"
    /\ ~BadCredential(gateReq)
    /\ accts[gateReq.token.sub].role # "admin" )
  => (gateResp.status = 403 /\ ~gateResp.invoked)

(***************************************************************************)
(* C17: impact counters                                                    *)
(***************************************************************************)
\* C17 as stated: no operation lowers a user's loyaltyPoints,
\* totalCO2Saved, totalWaterSaved or totalOrangesRecycled, and loyaltyPoints
\* is never negative.
C17_CountersNeverDecrease ==
  /\ [](member.loyaltyPoints >= 0)
  /\ [][ /\ member'.loyaltyPoints >= member.loyaltyPoints
         /\ member'.totalCO2Saved >= member.totalCO2Saved
         /\ member'.totalWaterSaved >= member.totalWaterSaved
         /\ member'.totalOrangesRecycled >= member.totalOrangesRecycled ]_vars

(***************************************************************************)
(* C18: notification failures                                              *)
(***************************************************************************)
\* C18 as stated: when a handler's notification creation fails (order
\* placement, cancellation, status change by the user or by the admin), the
\* handler still answers success and its primary change is persisted.
C18_NotificationFailureSwallowed ==
  notifErr =>
    /\ orderResp.code \in {200, 201}
    /\ orderResp.id \in 1..Len(orders)
    /\ orders[orderResp.id].status = orderResp.status

(***************************************************************************)
(* C19: order placement                                                    *)
(***************************************************************************)
\* C19 as stated: every order placement that passes the route's validation
\* is persisted as a pending order with a generated order number and is
\* answered 201.
C19_ValidPlacementIs201 ==
  (orderResp.op = "postOrder" /\ orderResp.code # 400) =>
    /\ orderResp.code = 201
    /\ orderResp.id \in 1..Len(orders)
    /\ orders[orderResp.id].status = "pending"
    /\ orders[orderResp.id].orderNumber # <<>>

(***************************************************************************)
(* C20: concurrent order placements                                        *)
(***************************************************************************)
\* every save() of a new order has returned
AllIdle == \A s \in Savers : saves[s].pc = "idle"

\* the quantity of product p in the persisted orders 1..n
RECURSIVE Persisted(_, _)
Persisted(n, p) ==
  IF n = 0 THEN 0 ELSE QuantityOf(orders[n].items, p) + Persisted(n - 1, p)

Attempts ==
  IF variant = "authjs" THEN user.failedLoginAttempts ELSE user.loginAttempts

\* C21: a login with the correct password on an active account that is not
\* locked is answered 200 with a token, resets the failed-attempt counter to
\* 0, clears lockUntil and sets lastLogin to the time of the login; and when
\* that login came after an expired lock, a single wrong password after it
\* counts 1 and does not lock the account.
C21_CorrectLoginResets ==
  /\ (loginResp.pwOk /\ ~loginResp.wasLocked /\ user.isActive)
     => /\ loginResp.status = 200
        /\ loginResp.token
        /\ Attempts = 0
        /\ user.lockUntil = Null
        /\ user.lastLogin = loginResp.at
  /\ (expired /\ sinceOk = 1 /\ user.isActive)
     => /\ Attempts = 1
        /\ user.lockUntil = Null

\* 5 wrong passwords locked the account, the lock expired, the correct
\* password was accepted, and the wrong password that followed was answered
\* 401
C21_Witness ==
  /\ expired
  /\ sinceOk = 1
  /\ user.isActive
  /\ ~loginResp.pwOk
  /\ loginResp.status = 401
  /\ user.lastLogin # Null

(***************************************************************************)
(* C22: points of an order                                                 *)
(***************************************************************************)
\* C22 as stated: placing an order (a POST /orders that passes the route's
\* validation) persists the order, increases the placing user's
\* loyaltyPoints by exactly floor(T), T the total recorded on the persisted
\* order, and creates the points-earned notification only when floor(T) > 0.
C22_PlacementEarnsFloorOfTotal ==
  [][ (orderResp'.op = "postOrder" /\ orderResp'.code # 400)
      => /\ Len(orders') = Len(orders) + 1
         /\ member'.loyaltyPoints =
              member.loyaltyPoints + MathFloor(orders'[Len(orders')].total)
         /\ (MathFloor(orders'[Len(orders')].total) <= 0
              => notifs' <= notifs + 1) ]_vars

(***************************************************************************)
(* C23: notification of a status change                                    *)
(***************************************************************************)
\* C23 as stated: every status change to processing, shipped, delivered or
\* cancelled that PUT /orders/:id/status or PUT /admin/orders/:id/status
\* persists comes with the creation of exactly one notification, and the
\* request is answered with success.
C23_StatusChangeNotifies ==
  [][ ( /\ orderResp'.op \in {"putStatus", "adminStatus"}
        /\ orderResp'.status \in StatusMessages
        /\ orderResp'.id \in 1..Len(orders)
        /\ orders[orderResp'.id].status # orderResp'.status
        /\ orders'[orderResp'.id].status = orderResp'.status )
      => /\ notifs' = notifs + 1
         /\ orderResp'.code = 200 ]_vars

(***************************************************************************)
(* C24: notifications of other users                                       *)
(***************************************************************************)
\* C24: through the notification routes a user changes or deletes only
\* notifications they own, and only the read flag changes: mark-read or
\* delete on another user's notification is answered 404 and changes nothing,
\* and read-all sets read on every notification of the caller and leaves the
\* notifications of every other user as they were.
C24_OnlyOwnNotifications ==
  [][ /\ \A id \in NotifIds :
           inbox'[id] # inbox[id]
           => /\ inbox[id] # Absent
              /\ inbox[id].user = inboxResp'.caller
              /\ inbox'[id] \in {Absent, [inbox[id] EXCEPT !.read = TRUE]}
      /\ ( /\ inboxResp'.op \in {"markRead", "delete"}
           /\ inbox[inboxResp'.id] # Absent
           /\ inbox[inboxResp'.id].user # inboxResp'.caller )
         => (inboxResp'.status = 404 /\ inbox' = inbox)
      /\ inboxResp'.op = "readAll"
         => \A id \in NotifIds :
              (inbox[id] # Absent /\ inbox[id].user = inboxResp'.caller)
              => inbox'[id] = [inbox[id] EXCEPT !.read = TRUE] ]_vars

\* a mark-read of another user's unread notification was answered 404
C24_Witness ==
  /\ inboxResp.op = "markRead"
  /\ inboxResp.status = 404
  /\ inbox[inboxResp.id] # Absent
  /\ inbox[inboxResp.id].user # inboxResp.caller
  /\ ~inbox[inboxResp.id].read

(***************************************************************************)
(* C25: the administrator secret                                           *)
(***************************************************************************)
\* C25 as stated: POST /auth/create-admin creates a user (with role admin)
\* only when the adminSecret of the body equals a configured administrator
\* secret; with a wrong secret, a missing secret or no secret configured it
\* answers 403 and creates no user.
C25_AdminOnlyWithSecret ==
  [][ /\ staff' # staff
         => /\ env # Undefined
            /\ adminResp'.secret = env
            /\ staff'[Len(staff')].role = "admin"
      /\ ( /\ adminResp'.op = "createAdmin"
           /\ (env = Undefined \/ adminResp'.secret # env) )
         => (adminResp'.status = 403 /\ staff' = staff) ]_vars

(***************************************************************************)
(* C26: concurrent wrong passwords                                         *)
(***************************************************************************)
\* the failed-attempt counter of the stored account
RaceAttempts ==
  IF raceVariant = "authjs" THEN account.failedLoginAttempts
  ELSE account.loginAttempts

\* C26 as stated: under concurrent logins no failed attempt is lost: once
\* the wrong-password logins have been answered, the failed-attempt counter
\* of an account that is not locked is their number, and at most 5 wrong
\* passwords are compared with the account's password before it is locked.
C26_NoAttemptLost ==
  /\ ( /\ \A c \in Clients : logins[c].pc = "idle"
       /\ ~isLocked(account, RaceNow) )
     => RaceAttempts = evaluated
  /\ evaluated <= LockThreshold

(***************************************************************************)
(* C27: concurrent signups with one email                                  *)
(***************************************************************************)
\* C27 as stated: when two signups with the same email both pass the
\* existence check before either creates the user, exactly one user with
\* that email is persisted and the request that loses is answered 400
\* duplicate-email, not 500.
C27_LosingSignupIs400 ==
  /\ \A i, j \in 1..Len(registry) :
       registry[i].email = registry[j].email => i = j
  /\ \A c \in Signers :
       signups[c].lost
       => /\ signups[c].status = 400
          /\ signups[c].msg = "duplicate"
          /\ \E i \in 1..Len(registry) :
               registry[i].email = Lowercase(signups[c].body.email)

(***************************************************************************)
(* C28: the last admin                                                     *)
(***************************************************************************)
\* C28 as stated: an admin who asks to demote themself is answered 400 and
\* keeps the role, and from a state with at least one admin the set of
\* admins never becomes empty, under any interleaving of demote requests.
C28_AdminsNeverEmpty ==
  /\ \E id \in Ids : roles[id] = "admin"
  /\ \A c \in Demoters :
       ( /\ demotes[c].status # 0
         /\ demotes[c].role = "admin"
         /\ demotes[c].caller = demotes[c].target )
       => demotes[c].status = 400

(***************************************************************************)
(* C29: the order routes keep to the caller's orders                       *)
(***************************************************************************)
OthersOrders(caller) ==
  {i \in 1..Len(ledger) : ledger[i].user # caller}

\* C29: the order routes show and change only orders whose user is the
\* authenticated caller; asked for an order of another user by its id they
\* answer 404, and no order of another user is changed by any request.
C29_OnlyOwnOrders ==
  /\ [](/\ ownResp.seen \cap OthersOrders(ownResp.caller) = {}
        /\ ownResp.id \in OthersOrders(ownResp.caller) => ownResp.code = 404)
  /\ [][ /\ Len(ledger') = Len(ledger)
         /\ \A i \in 1..Len(ledger) :
              ledger[i].user # ownResp'.caller => ledger'[i] = ledger[i] ]_vars

\* a user asked to change the status of the other user's order and got 404,
\* after changing one of their own
C29_Witness ==
  /\ ownResp.op = "putStatus"
  /\ ownResp.code = 404
  /\ ownResp.id \in OthersOrders(ownResp.caller)
  /\ \E i \in 1..Len(ledger) :
       ledger[i].user = ownResp.caller /\ ledger[i].status = "shipped"

====
